---- MODULE Spec2Model ----
(***************************************************************************)
(* Model of the grammar-to-parser compiler winnow-grammar / syn-grammar:   *)
(*   - the runtime support object (grammar-kit: ParseContext, attempt,     *)
(*     attempt_recover, skip_until),                                       *)
(*   - the static analysis the synthesizer uses (syn-grammar-model),       *)
(*   - the control flow the syn backend synthesizes (syn-grammar-macros),  *)
(*     interpreted over a token sequence,                                  *)
(*   - the control flow the winnow backend synthesizes                     *)
(*     (winnow-grammar-macro), interpreted over the same token sequence.   *)
(*                                                                         *)
(* Tokens are strings.  A cursor is the number of tokens already consumed; *)
(* the span of the token at cursor p is p, and the span reported at end of *)
(* input is Len(inp).                                                      *)
(***************************************************************************)
EXTENDS Integers, Sequences, FiniteSets, TLC

VARIABLES
    mode,      \* "parse": a synthesized parser runs; "rt": the runtime object is driven directly
    backend,   \* "syn" | "winnow": which code generator produced the running parser
    gid,       \* index of the grammar in Grammars
    inp,       \* the input, a sequence of tokens
    pc,        \* "ready" | "loop" | "done": position of the public entry point of the main rule
    pos,       \* cursor of the caller's input stream
    ctx,       \* the ParseContext
    lhs,       \* the seed of the left-recursion loop
    iters,     \* iterations of the left-recursion loop that replaced the seed
    out,       \* what the public entry point returned
    frames,    \* rt mode: the speculative calls in progress, innermost first
    cur,       \* rt mode: cursor of the innermost fork
    ret,       \* rt mode: the last return of a speculative call
    ops,       \* rt mode: operations performed so far
    offered,   \* rt mode: what record_error was given since the record was last empty
    gen        \* gen mode: how far the grammar macro is and what it has produced

vars == <<mode, backend, gid, inp, pc, pos, ctx, lhs, iters, out, frames, cur, ret, ops,
          offered, gen>>

(***************************************************************************)
(* Bounds of the model.                                                    *)
(***************************************************************************)
MaxLen == 5        \* longest input of the parse specification
MaxIter == 6       \* iterations of the left-recursion loop of the main rule that are followed
MaxDepth == 1      \* rt mode: nesting of speculative calls
MaxRtPos == 2      \* rt mode: tokens of the input
MaxStack == 1      \* rt mode: rule names the closures push on the rule stack
MaxScopes == 1     \* rt mode: scopes the closures open on top of the outermost one
MaxOps == 5        \* rt mode: operations of one behaviour

None == <<>>
Some(x) == <<x>>

(***************************************************************************)
(* grammar-kit: ScopeStack and ParseContext.                               *)
(***************************************************************************)
Last(s) == s[Len(s)]
Front(s) == SubSeq(s, 1, Len(s) - 1)

\* syn::Error: the span it points at and its message (a sequence of words;
\* format!("Error in rule '{}': {}", name, err) prepends two of them)
Error(p, m) == [pos |-> p, msg |-> m]
NoErr == Error(0, <<>>)

ScopeStack_new == <<{}>>

\* peek_guards is no field of the runtime object: it says which of two
\* synthesized parsers runs with the context, the one the macro emits (TRUE)
\* or the one in which every peek guard in front of a speculative attempt is
\* left out and a peek-guarded loop is an attempt loop (FALSE)
ParseContext_new ==
    [is_fatal |-> FALSE, best_error |-> None, scopes |-> ScopeStack_new,
     rule_stack |-> <<>>, last_span |-> None, peek_guards |-> TRUE]

peek_guards(c) == c.peek_guards

set_fatal(c, fatal) == [c EXCEPT !.is_fatal = fatal]

check_fatal(c) == c.is_fatal

enter_rule(c, name) == [c EXCEPT !.rule_stack = Append(@, name)]

exit_rule(c) == [c EXCEPT !.rule_stack = IF @ = <<>> THEN @ ELSE Front(@)]

\* an annotation with the outermost active rule
enrich_outermost(c, err) ==
    IF c.rule_stack /= <<>>
    THEN Error(err.pos, <<"Error in rule", c.rule_stack[1]>> \o err.msg)
    ELSE err

\* the error as record_error stores it
enrich(c, err) ==
    IF c.rule_stack /= <<>>
    THEN Error(err.pos, <<"Error in rule", Last(c.rule_stack)>> \o err.msg)
    ELSE err

\* a record that keeps the latest deep error
record_error_latest(c, err, start_span) ==
    IF c.best_error = None \/ err.pos /= start_span
    THEN [c EXCEPT !.best_error = Some([err |-> enrich(c, err), is_deep |-> err.pos /= start_span])]
    ELSE c

record_error(c, err, start_span) ==
    LET is_deep == err.pos /= start_span
        new == Some([err |-> enrich(c, err), is_deep |-> is_deep])
    IN  IF c.best_error = None
        THEN [c EXCEPT !.best_error = new]
        ELSE IF is_deep /\ ~c.best_error[1].is_deep
             THEN [c EXCEPT !.best_error = new]
             ELSE c

\* take_best_error: the context afterwards, and the Option it returns
take_best_error_ctx(c) == [c EXCEPT !.best_error = None]
take_best_error_val(c) == IF c.best_error = None THEN None ELSE Some(c.best_error[1].err)

record_span(c, span) == [c EXCEPT !.last_span = Some(span)]

enter_scope(c) == [c EXCEPT !.scopes = Append(@, {})]

\* an exit that pops whatever scope is innermost
exit_scope_unguarded(c) == [c EXCEPT !.scopes = IF @ = <<>> THEN @ ELSE Front(@)]

exit_scope(c) == [c EXCEPT !.scopes = IF Len(@) > 1 THEN Front(@) ELSE @]

define(c, name) ==
    IF c.scopes = <<>> THEN c
    ELSE [c EXCEPT !.scopes[Len(c.scopes)] = @ \cup {name}]

is_defined(c, name) == \E i \in 1..Len(c.scopes) : name \in c.scopes[i]

(***************************************************************************)
(* Results of parser routines.  ok: Ok(..) or Err(..); some: for the       *)
(* Result<Option<T>> of attempt, whether the Ok holds Some; pos: the       *)
(* cursor of the stream the routine ran on; hang: the routine does not     *)
(* return, a loop of it succeeds again and again at the same cursor.       *)
(***************************************************************************)
Ok(v, p, c) ==
    [ok |-> TRUE, some |-> TRUE, val |-> v, pos |-> p, ctx |-> c, err |-> NoErr, hang |-> FALSE]

OkNone(p, c) ==
    [ok |-> TRUE, some |-> FALSE, val |-> <<>>, pos |-> p, ctx |-> c, err |-> NoErr, hang |-> FALSE]

Err(e, p, c) ==
    [ok |-> FALSE, some |-> FALSE, val |-> <<>>, pos |-> p, ctx |-> c, err |-> e, hang |-> FALSE]

Hang(p, c) ==
    [ok |-> FALSE, some |-> FALSE, val |-> <<>>, pos |-> p, ctx |-> c, err |-> NoErr, hang |-> TRUE]

(***************************************************************************)
(* grammar-kit: attempt.  attempt_enter is the code before the call of the *)
(* closure (the snapshot, and the context the closure starts with);        *)
(* attempt_exit is the code after it, given the closure's result r on the  *)
(* fork and the cursor p of the caller's stream.                           *)
(***************************************************************************)
attempt_enter(c, p) ==
    [was_fatal |-> check_fatal(c),
     scopes_snapshot |-> c.scopes,
     rule_stack_snapshot |-> c.rule_stack,
     last_span_snapshot |-> c.last_span,
     start_span |-> p,
     ctx |-> set_fatal(c, FALSE)]

\* a rollback that restores nothing
keep(c, s) == c

restore(c, s) ==
    [c EXCEPT !.scopes = s.scopes_snapshot,
              !.rule_stack = s.rule_stack_snapshot,
              !.last_span = s.last_span_snapshot]

\* an attempt that propagates a fatal failure without restoring the snapshot
attempt_exit_unrestored(s, p, r) ==
    IF r.ok
    THEN Ok(r.val, r.pos, set_fatal(r.ctx, s.was_fatal))
    ELSE IF check_fatal(r.ctx)
         THEN Err(r.err, p, set_fatal(r.ctx, TRUE))
         ELSE OkNone(p, restore(record_error(set_fatal(r.ctx, s.was_fatal),
                                             r.err, s.start_span), s))

attempt_exit(s, p, r) ==
    LET is_now_fatal == check_fatal(r.ctx)
    IN  IF r.ok
        THEN Ok(r.val, r.pos, set_fatal(r.ctx, s.was_fatal))
        ELSE IF is_now_fatal
             THEN Err(r.err, p, set_fatal(restore(r.ctx, s), TRUE))
             ELSE OkNone(p, restore(record_error(set_fatal(r.ctx, s.was_fatal),
                                                 r.err, s.start_span), s))

(***************************************************************************)
(* grammar-kit: attempt_recover, split the same way.                       *)
(***************************************************************************)
attempt_recover_enter(c, p) == attempt_enter(c, p)

\* a recovery wrapper that lets a fatal failure of its body through
attempt_recover_fatal(s, p, r) == attempt_exit(s, p, r)

attempt_recover_exit(s, p, r) ==
    LET c1 == set_fatal(r.ctx, s.was_fatal)
    IN  IF r.ok
        THEN Ok(r.val, r.pos, c1)
        ELSE OkNone(p, restore(record_error(c1, r.err, s.start_span), s))

(***************************************************************************)
(* syn-grammar-model: the pattern tree (ModelPattern), rule variants and   *)
(* rules.  Spans are left out; a binding is None or Some(name).  An action *)
(* is a record the interpreter evaluates over the values bound by the      *)
(* variant's sequence, in binding order.                                   *)
(***************************************************************************)
Cut == [k |-> "Cut"]
Lit(t) == [k |-> "Lit", t |-> t]
RuleCallArgs(binding, rule_name, args) ==
    [k |-> "RuleCall", binding |-> binding, rule_name |-> rule_name, args |-> args]
RuleCall(binding, rule_name) == RuleCallArgs(binding, rule_name, <<>>)
Group(alts) == [k |-> "Group", alts |-> alts]
Optional(inner) == [k |-> "Optional", inner |-> inner]
Repeat(inner) == [k |-> "Repeat", inner |-> inner]
Plus(inner) == [k |-> "Plus", inner |-> inner]
Recover(binding, body, sync) == [k |-> "Recover", binding |-> binding, body |-> body, sync |-> sync]
Peek(inner) == [k |-> "Peek", inner |-> inner]
Not(inner) == [k |-> "Not", inner |-> inner]
SpanBinding(inner) == [k |-> "SpanBinding", inner |-> inner]
Parenthesized(seq) == [k |-> "Parenthesized", seq |-> seq]

RuleVariant(pattern, action) == [pattern |-> pattern, action |-> action]
RuleParams(name, params, variants) == [name |-> name, params |-> params, variants |-> variants]
Rule(name, variants) == RuleParams(name, <<>>, variants)

\* actions: a constant, the first bound value, the difference of the first two
\* bound values, the tuple of all bound values, the length of the first bound value
Const(n) == [op |-> "const", n |-> n]
First == [op |-> "first", n |-> 0]
Sub == [op |-> "sub", n |-> 0]
Tuple == [op |-> "tuple", n |-> 0]
Count == [op |-> "count", n |-> 0]

EvalAction(a, env) ==
    CASE a.op = "const" -> a.n
      [] a.op = "first" -> env[1]
      [] a.op = "sub" -> env[1] - env[2]
      [] a.op = "tuple" -> env
      [] a.op = "count" -> Len(env[1])

(***************************************************************************)
(* syn-grammar-model: analysis.                                            *)
(***************************************************************************)
RECURSIVE PositionOfCut(_, _)
PositionOfCut(patterns, i) ==
    IF i > Len(patterns) THEN 0
    ELSE IF patterns[i].k = "Cut" THEN i
    ELSE PositionOfCut(patterns, i + 1)

\* None, or Some(CutAnalysis)
find_cut(patterns) ==
    LET idx == PositionOfCut(patterns, 1)
    IN  IF idx = 0 THEN None
        ELSE Some([pre_cut |-> SubSeq(patterns, 1, idx - 1),
                   post_cut |-> SubSeq(patterns, idx + 1, Len(patterns))])

IsRecursiveVariant(rule_name, v) ==
    /\ v.pattern /= <<>>
    /\ v.pattern[1].k = "RuleCall"
    /\ v.pattern[1].rule_name = rule_name

RECURSIVE split_from(_, _, _, _)
split_from(rule_name, variants, i, want_recursive) ==
    IF i > Len(variants) THEN <<>>
    ELSE (IF IsRecursiveVariant(rule_name, variants[i]) = want_recursive
          THEN <<variants[i]>> ELSE <<>>)
         \o split_from(rule_name, variants, i + 1, want_recursive)

split_left_recursive(rule_name, variants) ==
    [recursive |-> split_from(rule_name, variants, 1, TRUE),
     base |-> split_from(rule_name, variants, 1, FALSE)]

RECURSIVE collect_bindings(_)
RECURSIVE collect_bindings_alts(_)
collect_bindings_alts(alts) ==
    IF alts = <<>> THEN <<>>
    ELSE collect_bindings(alts[1]) \o collect_bindings_alts(Tail(alts))

collect_bindings(patterns) ==
    IF patterns = <<>> THEN <<>>
    ELSE LET p == patterns[1]
             here ==
               CASE p.k = "RuleCall" -> p.binding
                 [] p.k \in {"Repeat", "Plus", "Optional", "Peek"} -> collect_bindings(<<p.inner>>)
                 [] p.k = "Parenthesized" -> collect_bindings(p.seq)
                 [] p.k = "Recover" ->
                      IF p.binding /= None THEN p.binding ELSE collect_bindings(<<p.body>>)
                 [] p.k = "Group" -> collect_bindings_alts(p.alts)
                 [] OTHER -> <<>>
         IN  here \o collect_bindings(Tail(patterns))

\* get_simple_peek: None, or Some(the token input.peek is asked for)
RECURSIVE get_simple_peek(_)
get_simple_peek(pattern) ==
    CASE pattern.k = "Lit" -> Some(pattern.t)
      [] pattern.k = "Parenthesized" -> Some("(")
      [] pattern.k \in {"Optional", "Repeat", "Plus", "SpanBinding", "Peek"} ->
           get_simple_peek(pattern.inner)
      [] pattern.k = "Recover" -> get_simple_peek(pattern.body)
      [] pattern.k = "Group" ->
           IF Len(pattern.alts) = 1 /\ pattern.alts[1] /= <<>>
           THEN get_simple_peek(pattern.alts[1][1])
           ELSE None
      [] OTHER -> None

\* get_peek_token_string: None, or Some(the key of the start token)
RECURSIVE get_peek_token_string(_)
get_peek_token_string(patterns) ==
    IF patterns = <<>> THEN None
    ELSE LET p == patterns[1]
         IN  CASE p.k = "Lit" -> Some(p.t)
               [] p.k = "Parenthesized" -> Some("Paren")
               [] p.k \in {"Optional", "Repeat", "Plus", "SpanBinding", "Peek"} ->
                    get_peek_token_string(<<p.inner>>)
               [] p.k = "Recover" -> get_peek_token_string(<<p.body>>)
               [] p.k = "Group" ->
                    IF Len(p.alts) = 1 THEN get_peek_token_string(p.alts[1]) ELSE None
               [] OTHER -> None

\* a classification that takes an optional pattern for as nullable as its inner pattern
RECURSIVE optional_as_inner(_)
optional_as_inner(pattern) ==
    CASE pattern.k = "Cut" -> TRUE
      [] pattern.k = "Lit" -> FALSE
      [] pattern.k = "RuleCall" -> TRUE
      [] pattern.k = "Group" ->
           \E i \in 1..Len(pattern.alts) :
               \A j \in 1..Len(pattern.alts[i]) : optional_as_inner(pattern.alts[i][j])
      [] pattern.k = "Parenthesized" -> FALSE
      [] pattern.k = "Optional" -> optional_as_inner(pattern.inner)
      [] pattern.k = "Repeat" -> TRUE
      [] pattern.k \in {"Plus", "SpanBinding"} -> optional_as_inner(pattern.inner)
      [] OTHER -> TRUE

RECURSIVE is_nullable(_)
is_nullable(pattern) ==
    CASE pattern.k = "Cut" -> TRUE
      [] pattern.k = "Lit" -> FALSE
      [] pattern.k = "RuleCall" -> TRUE
      [] pattern.k = "Group" ->
           \E i \in 1..Len(pattern.alts) :
               \A j \in 1..Len(pattern.alts[i]) : is_nullable(pattern.alts[i][j])
      [] pattern.k = "Parenthesized" -> FALSE
      [] pattern.k = "Optional" -> TRUE
      [] pattern.k = "Repeat" -> TRUE
      [] pattern.k = "Plus" -> is_nullable(pattern.inner)
      [] pattern.k = "SpanBinding" -> is_nullable(pattern.inner)
      [] pattern.k = "Recover" -> TRUE
      [] pattern.k = "Peek" -> TRUE
      [] pattern.k = "Not" -> TRUE

\* generate_variants_internal: the classification of variant i among its siblings
first_is_nullable(v) == v.pattern = <<>> \/ is_nullable(v.pattern[1])

token_counts(variants, key) ==
    Cardinality({i \in 1..Len(variants) :
                   /\ ~first_is_nullable(variants[i])
                   /\ get_peek_token_string(variants[i].pattern) = Some(key)})

peek_token_obj(v) ==
    IF ~first_is_nullable(v) THEN get_simple_peek(v.pattern[1]) ELSE None

peek_str(v) ==
    IF ~first_is_nullable(v) THEN get_peek_token_string(v.pattern) ELSE None

\* a classification that takes every alternative with a leading token for unique
has_leading_token(variants, i) == peek_str(variants[i]) /= None

is_unique(variants, i) ==
    /\ peek_str(variants[i]) /= None
    /\ token_counts(variants, peek_str(variants[i])[1]) = 1

(***************************************************************************)
(* grammar-kit: peek and not_check, split like attempt.                    *)
(***************************************************************************)
peek_enter(c, p) ==
    [was_fatal |-> check_fatal(c),
     scopes_snapshot |-> c.scopes,
     rule_stack_snapshot |-> c.rule_stack,
     last_span_snapshot |-> c.last_span,
     start_span |-> p,
     ctx |-> c]

peek_exit(s, p, r) ==
    IF r.ok THEN Ok(r.val, p, restore(r.ctx, s))
    ELSE Err(r.err, p, restore(r.ctx, s))

not_check_enter(c, p) == attempt_enter(c, p)

\* a negative lookahead that leaves the fatal flag as its parser left it
not_check_exit_unreset(s, p, r) ==
    IF r.ok THEN Err(Error(p, <<"unexpected match">>), p, restore(r.ctx, s))
    ELSE Ok(<<>>, p, restore(r.ctx, s))

not_check_exit(s, p, r) ==
    LET c1 == restore(set_fatal(r.ctx, s.was_fatal), s)
    IN  IF r.ok THEN Err(Error(p, <<"unexpected match">>), p, c1)
        ELSE Ok(<<>>, p, c1)

\* grammar-kit: skip_until with the predicate |i| i.peek(tok); the cursor it stops at
\* a resynchronization that also consumes the anchor
RECURSIVE skip_past(_, _, _)
skip_past(input, p, tok) ==
    IF p < Len(input) /\ input[p + 1] /= tok
    THEN skip_past(input, p + 1, tok)
    ELSE IF p < Len(input) THEN p + 1 ELSE p

RECURSIVE skip_until(_, _, _)
skip_until(input, p, tok) ==
    IF p < Len(input) /\ input[p + 1] /= tok
    THEN skip_until(input, p + 1, tok)
    ELSE p

(***************************************************************************)
(* The token stream (syn::parse::ParseStream over a flat token sequence).  *)
(***************************************************************************)
IntTokens == {"1", "2", "3", "10"}
IntVal(t) == CASE t = "1" -> 1 [] t = "2" -> 2 [] t = "3" -> 3 [] t = "10" -> 10
PunctTokens == {"-", "+", ";", "="}
\* a parenthesized group of the stream is its tokens between "(" and ")"
DelimTokens == {"(", ")"}
IsIdentToken(t) == t \notin IntTokens /\ t \notin PunctTokens /\ t \notin DelimTokens

\* the index of the ")" that closes the group whose content begins at index i
RECURSIVE close_of(_, _, _)
close_of(input, i, depth) ==
    IF i > Len(input) THEN Len(input) + 1
    ELSE IF input[i] = ")"
         THEN IF depth = 0 THEN i ELSE close_of(input, i + 1, depth - 1)
    ELSE IF input[i] = "(" THEN close_of(input, i + 1, depth + 1)
    ELSE close_of(input, i + 1, depth)

\* a token stream has its parentheses balanced
RECURSIVE balanced_from(_, _, _)
balanced_from(input, i, depth) ==
    IF i > Len(input) THEN depth = 0
    ELSE IF input[i] = "(" THEN balanced_from(input, i + 1, depth + 1)
    ELSE IF input[i] = ")" THEN depth > 0 /\ balanced_from(input, i + 1, depth - 1)
    ELSE balanced_from(input, i + 1, depth)

\* input.peek(T) for the token type T of a literal
input_peek(input, p, tok) == p < Len(input) /\ input[p + 1] = tok

\* input.parse::<T>() for the token type T of a literal, then ctx.record_span
parse_token(input, p, c, tok) ==
    IF input_peek(input, p, tok)
    THEN Ok(<<>>, p + 1, record_span(c, p))
    ELSE Err(Error(p, <<"expected", tok>>), p, c)

\* syn-grammar builtins: parse_i32_impl and parse_ident_impl
parse_i32_impl(input, p, c) ==
    IF p < Len(input) /\ input[p + 1] \in IntTokens
    THEN Ok(IntVal(input[p + 1]), p + 1, record_span(c, p))
    ELSE Err(Error(p, <<"expected", "integer literal">>), p, c)

parse_ident_impl(input, p, c) ==
    IF p < Len(input) /\ IsIdentToken(input[p + 1])
    THEN Ok(input[p + 1], p + 1, record_span(c, p))
    ELSE Err(Error(p, <<"expected", "identifier">>), p, c)

Builtins == {"integer", "ident"}

RuleNames(G) == {G[i].name : i \in 1..Len(G)}
RuleOf(G, name) == G[CHOOSE i \in 1..Len(G) : G[i].name = name]

\* the speculative calls as the synthesized code uses them: a closure that does
\* not return keeps its caller from returning
attempt_done(s, p, r) == IF r.hang THEN r ELSE attempt_exit(s, p, r)
attempt_recover_done(s, p, r) == IF r.hang THEN r ELSE attempt_recover_exit(s, p, r)
peek_done(s, p, r) == IF r.hang THEN r ELSE peek_exit(s, p, r)
not_check_done(s, p, r) == IF r.hang THEN r ELSE not_check_exit(s, p, r)

\* Some(b) for every value, None for every binding
SomeEach(vals) == [i \in 1..Len(vals) |-> Some(vals[i])]
NoneEach(bindings) == [i \in 1..Len(bindings) |-> None]
EmptyVecs(bindings) == [i \in 1..Len(bindings) |-> <<>>]
PushVecs(vecs, vals) == [i \in 1..Len(vecs) |-> Append(vecs[i], vals[i])]

(***************************************************************************)
(* syn-grammar-macros: the control flow each generator emits, run on       *)
(* input at cursor p with context c.  G is the grammar (a sequence of      *)
(* rules).  A step returns the values it binds, in binding order.          *)
(***************************************************************************)
RECURSIVE generate_pattern_step(_, _, _, _, _)
RECURSIVE generate_sequence_steps(_, _, _, _, _)
RECURSIVE variant_arms(_, _, _, _, _, _, _)
RECURSIVE repeat_peek_loop(_, _, _, _, _, _, _)
RECURSIVE repeat_attempt_loop(_, _, _, _, _, _)
RECURSIVE parse_rule_impl(_, _, _, _, _)
RECURSIVE recursive_loop(_, _, _, _, _, _)

\* a result r1 followed by a result r2 obtained after it: the values of both
then_result(r1, r2) ==
    IF ~r2.ok THEN r2 ELSE Ok(r1.val \o r2.val, r2.pos, r2.ctx)

\* the steps after the first one, given the result r1 of the first one
sequence_rest(G, patterns, input, r1) ==
    IF ~r1.ok THEN r1
    ELSE then_result(r1, generate_sequence_steps(G, patterns, input, r1.pos, r1.ctx))

generate_sequence_steps(G, patterns, input, p, c) ==
    IF patterns = <<>> THEN Ok(<<>>, p, c)
    ELSE sequence_rest(G, Tail(patterns), input,
                       generate_pattern_step(G, patterns[1], input, p, c))

\* Ok({ action }) after steps with result r (env: the values bound before them)
action_result(action, env, r) ==
    IF ~r.ok THEN r ELSE Ok(EvalAction(action, env \o r.val), r.pos, r.ctx)

\* generate_sequence: the steps, then the action over the bound values
generate_sequence(G, patterns, action, env, input, p, c) ==
    action_result(action, env, generate_sequence_steps(G, patterns, input, p, c))

\* match run() { Ok(v) => return Ok(v), Err(e) => { ctx.set_fatal(true); return Err(e) } }
committed(r) == IF r.ok THEN r ELSE [r EXCEPT !.ctx = set_fatal(@, TRUE)]

\* a variant with a cut that is not unique, after rt::attempt of its pre-cut steps
post_run(G, post_cut, action, input, pre_result) ==
    IF ~pre_result.ok \/ ~pre_result.some THEN pre_result
    ELSE committed(generate_sequence(G, post_cut, action, pre_result.val, input,
                                     pre_result.pos, pre_result.ctx))

\* the steps a variant runs on the stream it is given: all of them, or, for
\* a variant with a cut that is not unique, the pre-cut ones
first_run(variant, unique) ==
    IF find_cut(variant.pattern) = None THEN variant.pattern
    ELSE IF unique
         THEN find_cut(variant.pattern)[1].pre_cut \o find_cut(variant.pattern)[1].post_cut
         ELSE find_cut(variant.pattern)[1].pre_cut

\* one arm of generate_variants_internal: Ok(v): return Ok(v); Err: return
\* Err(e); Ok(None): control falls through to the next arm
variant_arm(G, variants, i, input, p, c) ==
    LET variant == variants[i]
        has_cut == find_cut(variant.pattern) /= None
        pto == peek_token_obj(variant)
        unique == is_unique(variants, i)
        s == attempt_enter(c, p)
    IN  IF pto /= None /\ (unique \/ peek_guards(c)) /\ ~input_peek(input, p, pto[1])
        THEN OkNone(p, c)
        ELSE IF unique
        THEN committed(generate_sequence(G, first_run(variant, unique), variant.action,
                                         <<>>, input, p, c))
        ELSE IF has_cut
        THEN post_run(G, find_cut(variant.pattern)[1].post_cut, variant.action, input,
                      attempt_done(s, p,
                          generate_sequence_steps(G, first_run(variant, unique), input, p, s.ctx)))
        ELSE attempt_done(s, p,
                 generate_sequence(G, first_run(variant, unique), variant.action, <<>>,
                                   input, p, s.ctx))

\* after the last arm
no_variant(is_top_level, p, c) ==
    IF take_best_error_val(c) /= None
    THEN Err(take_best_error_val(c)[1], p, take_best_error_ctx(c))
    ELSE Err(Error(p, <<IF is_top_level THEN "No matching rule variant found"
                        ELSE "No matching variant in group">>), p, take_best_error_ctx(c))

\* after arm i with result a
next_arm(G, variants, i, is_top_level, input, p, a) ==
    IF a.ok /\ ~a.some
    THEN variant_arms(G, variants, i + 1, is_top_level, input, p, a.ctx)
    ELSE a

variant_arms(G, variants, i, is_top_level, input, p, c) ==
    IF i > Len(variants) THEN no_variant(is_top_level, p, c)
    ELSE next_arm(G, variants, i, is_top_level, input, p,
                  variant_arm(G, variants, i, input, p, c))

generate_variants_internal(G, variants, is_top_level, input, p, c) ==
    IF variants = <<>> THEN Err(Error(p, <<"No variants defined">>), p, c)
    ELSE variant_arms(G, variants, 1, is_top_level, input, p, c)

\* an iteration of a loop that succeeded with result r at cursor p: a loop
\* whose iteration succeeds without moving the cursor repeats it forever
repeat_peek_next(G, inner, tok, input, p, vecs, r) ==
    IF ~r.ok THEN r
    ELSE IF r.pos = p THEN Hang(p, r.ctx)
    ELSE repeat_peek_loop(G, inner, tok, input, r.pos, r.ctx, PushVecs(vecs, r.val))

\* while input.peek(tok) { inner; push }
repeat_peek_loop(G, inner, tok, input, p, c, vecs) ==
    IF ~input_peek(input, p, tok) THEN Ok(vecs, p, c)
    ELSE repeat_peek_next(G, inner, tok, input, p, vecs,
                          generate_pattern_step(G, inner, input, p, c))

repeat_attempt_next(G, inner, input, p, vecs, a) ==
    IF ~a.ok THEN a
    ELSE IF ~a.some THEN Ok(vecs, p, a.ctx)
    ELSE IF a.pos = p THEN Hang(p, a.ctx)
    ELSE repeat_attempt_loop(G, inner, input, a.pos, a.ctx, PushVecs(vecs, a.val))

\* while let Some(vals) = rt::attempt(inner)? { push }
repeat_attempt_loop(G, inner, input, p, c, vecs) ==
    repeat_attempt_next(G, inner, input, p, vecs,
        attempt_done(attempt_enter(c, p), p,
                     generate_pattern_step(G, inner, input, p, set_fatal(c, FALSE))))

\* the loop of Repeat and Plus after the vectors are initialised
repeat_loop(G, inner, input, p, c, vecs) ==
    IF peek_guards(c) /\ vecs /= <<>> /\ get_simple_peek(inner) /= None
    THEN repeat_peek_loop(G, inner, get_simple_peek(inner)[1], input, p, c, vecs)
    ELSE repeat_attempt_loop(G, inner, input, p, c, vecs)

\* a Plus whose first match is not mandatory
plus_or_none(G, inner, input, r) ==
    IF ~r.ok THEN Ok(EmptyVecs(collect_bindings(<<inner>>)), r.pos, r.ctx)
    ELSE repeat_loop(G, inner, input, r.pos, r.ctx,
                     PushVecs(EmptyVecs(collect_bindings(<<inner>>)), r.val))

\* Plus: the loop after the first, mandatory match with result r
plus_rest(G, inner, input, r) ==
    IF ~r.ok THEN r
    ELSE repeat_loop(G, inner, input, r.pos, r.ctx,
                     PushVecs(EmptyVecs(collect_bindings(<<inner>>)), r.val))

effective_body(pattern) ==
    IF pattern.binding /= None /\ pattern.body.k = "RuleCall" /\ pattern.body.binding = None
    THEN RuleCall(pattern.binding, pattern.body.rule_name)
    ELSE pattern.body

generate_rule_call_expr(G, rule_name, input, p, c) ==
    IF rule_name \in RuleNames(G) THEN parse_rule_impl(G, rule_name, input, p, c)
    ELSE IF rule_name = "integer" THEN parse_i32_impl(input, p, c)
    ELSE parse_ident_impl(input, p, c)

\* let binding = call?;
rule_call_value(binding, r) ==
    IF ~r.ok THEN r
    ELSE Ok(IF binding /= None THEN <<r.val>> ELSE <<>>, r.pos, r.ctx)

\* Optional: what the bindings get from the result a of rt::attempt
optional_value(bindings, p, a) ==
    IF ~a.ok THEN a
    ELSE IF a.some THEN Ok(SomeEach(a.val), a.pos, a.ctx)
    ELSE Ok(NoneEach(bindings), p, a.ctx)

\* Recover: what the bindings get from the result a of rt::attempt_recover,
\* and rt::skip_until when there is none
recover_value(pattern, bindings, input, p, a) ==
    IF ~a.ok THEN a
    ELSE IF a.some
    THEN Ok(IF bindings = <<>> THEN <<>>
            ELSE IF pattern.binding /= None THEN <<Some(a.val[1])>>
            ELSE SomeEach(a.val), a.pos, a.ctx)
    ELSE Ok(IF bindings = <<>> THEN <<>>
            ELSE IF pattern.binding /= None THEN <<None>>
            ELSE NoneEach(bindings),
            skip_until(input, p, get_simple_peek(pattern.sync)[1]), a.ctx)

\* the alternatives of a group as variants whose action is the tuple of the bindings
temp_variants(alts) == [i \in 1..Len(alts) |-> RuleVariant(alts[i], Tuple)]

\* syn::parenthesized!(content in input): the whole group is taken from the
\* input, the inner sequence runs on its content; r is its result there.
\* (Tokens of the content the sequence leaves over are not looked at here.)
delimited_value(input, p, r) ==
    IF r.ok THEN Ok(r.val, close_of(input, p + 2, 0), r.ctx) ELSE r

generate_pattern_step(G, pattern, input, p, c) ==
    CASE pattern.k = "Cut" -> Ok(<<>>, p, c)
      [] pattern.k = "Parenthesized" ->
           IF ~input_peek(input, p, "(")
           THEN Err(Error(p, <<"expected", "parentheses">>), p, c)
           ELSE delimited_value(input, p,
                    generate_sequence_steps(G, pattern.seq,
                        SubSeq(input, 1, close_of(input, p + 2, 0) - 1), p + 1, c))
      [] pattern.k = "Lit" -> parse_token(input, p, c, pattern.t)
      [] pattern.k = "RuleCall" ->
           rule_call_value(pattern.binding,
                           generate_rule_call_expr(G, pattern.rule_name, input, p, c))
      [] pattern.k = "Repeat" ->
           repeat_loop(G, pattern.inner, input, p, c,
                       EmptyVecs(collect_bindings(<<pattern.inner>>)))
      [] pattern.k = "Plus" ->
           plus_rest(G, pattern.inner, input,
                     generate_pattern_step(G, pattern.inner, input, p, c))
      [] pattern.k = "Optional" ->
           IF peek_guards(c)
              /\ get_simple_peek(pattern.inner) /= None /\ ~is_nullable(pattern.inner)
              /\ ~input_peek(input, p, get_simple_peek(pattern.inner)[1])
           THEN Ok(NoneEach(collect_bindings(<<pattern.inner>>)), p, c)
           ELSE optional_value(collect_bindings(<<pattern.inner>>), p,
                    attempt_done(attempt_enter(c, p), p,
                        generate_pattern_step(G, pattern.inner, input, p, set_fatal(c, FALSE))))
      [] pattern.k = "Group" ->
           generate_variants_internal(G, temp_variants(pattern.alts), FALSE, input, p, c)
      [] pattern.k = "Recover" ->
           recover_value(pattern, collect_bindings(<<effective_body(pattern)>>), input, p,
               attempt_recover_done(attempt_recover_enter(c, p), p,
                   generate_pattern_step(G, effective_body(pattern), input, p,
                                         set_fatal(c, FALSE))))
      [] pattern.k = "Peek" ->
           peek_done(peek_enter(c, p), p,
                     generate_pattern_step(G, pattern.inner, input, p, c))
      [] pattern.k = "Not" ->
           not_check_done(not_check_enter(c, p), p,
                          generate_pattern_step(G, pattern.inner, input, p, set_fatal(c, FALSE)))

\* if _start_cursor == input.cursor() { return Err(..) } lhs = new_val; continue;
loop_progress(p, a) ==
    IF a.ok /\ a.some /\ a.pos = p
    THEN Err(Error(p, <<"Left-recursive rule matched empty string (infinite loop detected)">>),
             p, a.ctx)
    ELSE a

\* one arm of generate_recursive_loop_body: Ok(v): lhs = v; continue;
\* Err: return Err(e); Ok(None): control falls through to the next arm
recursive_loop_arm(G, variant, seed, input, p, c) ==
    LET tail_pattern == Tail(variant.pattern)
        bind_stmt == IF variant.pattern[1].binding /= None THEN <<seed>> ELSE <<>>
        peek_opt == IF tail_pattern = <<>> THEN None ELSE get_simple_peek(tail_pattern[1])
    IN  IF peek_guards(c) /\ peek_opt /= None /\ ~input_peek(input, p, peek_opt[1])
        THEN OkNone(p, c)
        ELSE loop_progress(p,
                 attempt_done(attempt_enter(c, p), p,
                     generate_sequence(G, tail_pattern, variant.action, bind_stmt,
                                       input, p, set_fatal(c, FALSE))))

RECURSIVE recursive_loop_arms(_, _, _, _, _, _, _)
next_loop_arm(G, variants, i, seed, input, p, a) ==
    IF a.ok /\ ~a.some
    THEN recursive_loop_arms(G, variants, i + 1, seed, input, p, a.ctx)
    ELSE a

recursive_loop_arms(G, variants, i, seed, input, p, c) ==
    IF i > Len(variants) THEN OkNone(p, c)
    ELSE next_loop_arm(G, variants, i, seed, input, p,
                       recursive_loop_arm(G, variants[i], seed, input, p, c))

\* after the arms of one iteration with result a: continue, return, or break
loop_next(G, variants, seed, input, p, a) ==
    IF ~a.ok THEN a
    ELSE IF ~a.some THEN Ok(seed, p, a.ctx)
    ELSE recursive_loop(G, variants, a.val, input, a.pos, a.ctx)

\* loop { arms; break } Ok(lhs)
recursive_loop(G, variants, seed, input, p, c) ==
    loop_next(G, variants, seed, input, p,
              recursive_loop_arms(G, variants, 1, seed, input, p, c))

\* let mut lhs = base_parser(input, ctx)?; loop { .. }
loop_after_base(G, variants, input, base) ==
    IF ~base.ok THEN base
    ELSE recursive_loop(G, variants, base.val, input, base.pos, base.ctx)

\* the body of parse_<rule>_impl
rule_body(G, name, variants, input, p, c) ==
    IF split_left_recursive(name, variants).recursive = <<>>
    THEN generate_variants_internal(G, variants, TRUE, input, p, c)
    ELSE loop_after_base(G, split_left_recursive(name, variants).recursive, input,
             generate_variants_internal(G, split_left_recursive(name, variants).base,
                                        TRUE, input, p, c))

\* a routine that returns without ctx.exit_rule()
stay_in_rule(res) == res

\* ctx.exit_rule(); res
leave_rule(res) == IF res.hang THEN res ELSE [res EXCEPT !.ctx = exit_rule(@)]

\* generate_rule, parse_<rule>_impl: enter_rule, the body, exit_rule
parse_rule_impl(G, name, input, p, c) ==
    leave_rule(rule_body(G, name, RuleOf(G, name).variants, input, p, enter_rule(c, name)))

\* generate_rule, parse_<rule>: what the public entry point makes of the
\* result of parse_<rule>_impl
parse_rule_result(res) ==
    IF res.ok \/ res.hang THEN res
    ELSE IF take_best_error_val(res.ctx) /= None
    THEN Err(take_best_error_val(res.ctx)[1], res.pos, take_best_error_ctx(res.ctx))
    ELSE res

parse_rule(G, name, input) ==
    parse_rule_result(parse_rule_impl(G, name, input, 0, ParseContext_new))

(***************************************************************************)
(* What each backend reads.  The input is a sequence of words (maximal     *)
(* runs of non-blank characters, each a single Rust token).  The syn       *)
(* backend reads one token per word.  The winnow backend reads characters  *)
(* and skips optional blanks before every literal, so it cannot tell a     *)
(* word boundary from none: it reads the pieces of the words.              *)
(***************************************************************************)
Pieces(word) ==
    CASE word = "commitfailure" -> <<"commit", "failure">>
      [] word = "commitsuccess" -> <<"commit", "success">>
      [] OTHER -> <<word>>

RECURSIVE winnow_stream(_)
winnow_stream(words) ==
    IF words = <<>> THEN <<>> ELSE Pieces(words[1]) \o winnow_stream(Tail(words))

syn_stream(words) == words

(***************************************************************************)
(* winnow: ModalResult.  cut: ErrMode::Cut rather than ErrMode::Backtrack. *)
(***************************************************************************)
WOk(v, p) == [ok |-> TRUE, val |-> v, pos |-> p, cut |-> FALSE, err |-> NoErr, hang |-> FALSE]
WErr(cut, e, p) == [ok |-> FALSE, val |-> <<>>, pos |-> p, cut |-> cut, err |-> e, hang |-> FALSE]
WHang(p) == [ok |-> FALSE, val |-> <<>>, pos |-> p, cut |-> FALSE, err |-> NoErr, hang |-> TRUE]

\* winnow::combinator::cut_err
cut_err(r) == IF ~r.ok /\ ~r.hang THEN [r EXCEPT !.cut = TRUE] ELSE r

\* (ws, literal(s))
w_literal(input, p, s) ==
    IF p < Len(input) /\ input[p + 1] = s THEN WOk(s, p + 1)
    ELSE WErr(FALSE, Error(p, <<"expected", s>>), p)

\* the builtin parsers of generate_rule_call_parser
w_builtin(rule_name, input, p) ==
    IF rule_name = "integer"
    THEN IF p < Len(input) /\ input[p + 1] \in IntTokens
         THEN WOk(IntVal(input[p + 1]), p + 1)
         ELSE WErr(FALSE, Error(p, <<"expected", "integer literal">>), p)
    ELSE IF p < Len(input) /\ input[p + 1] \notin PunctTokens
         THEN WOk(input[p + 1], p + 1)
         ELSE WErr(FALSE, Error(p, <<"expected", "identifier">>), p)

RECURSIVE get_inner_binding(_)
get_inner_binding(pattern) ==
    CASE pattern.k = "RuleCall" -> pattern.binding
      [] pattern.k = "Group" ->
           IF Len(pattern.alts) = 1 /\ Len(pattern.alts[1]) = 1
           THEN get_inner_binding(pattern.alts[1][1])
           ELSE None
      [] pattern.k \in {"Optional", "Repeat", "Plus"} -> get_inner_binding(pattern.inner)
      [] OTHER -> None

RECURSIVE w_generate_parser_expr(_, _, _, _)
RECURSIVE w_generate_sequence_steps(_, _, _, _, _)
RECURSIVE w_generate_sequence_parser(_, _, _, _, _)
RECURSIVE w_alt(_, _, _, _, _, _)
RECURSIVE w_parse_rule(_, _, _, _)
RECURSIVE w_recursive_loop(_, _, _, _, _)

\* let binding = parser.parse_next(input)?;
w_bind(binding, r) ==
    IF ~r.ok THEN r ELSE WOk(IF binding /= None THEN <<r.val>> ELSE <<>>, r.pos)

\* a result r1 followed by a result r2 obtained after it: the values of both
w_then_result(r1, r2) == IF ~r2.ok THEN r2 ELSE WOk(r1.val \o r2.val, r2.pos)

\* generate_step: the statement for one pattern; the values it binds
w_generate_step(G, pattern, in_cut, input, p) ==
    IF pattern.k = "Group" /\ Len(pattern.alts) = 1
    THEN w_generate_sequence_steps(G, pattern.alts[1], in_cut, input, p)
    ELSE IF in_cut
    THEN w_bind(get_inner_binding(pattern), cut_err(w_generate_parser_expr(G, pattern, input, p)))
    ELSE w_bind(get_inner_binding(pattern), w_generate_parser_expr(G, pattern, input, p))

w_sequence_rest(G, patterns, in_cut, input, r1) ==
    IF ~r1.ok THEN r1
    ELSE w_then_result(r1, w_generate_sequence_steps(G, patterns, in_cut, input, r1.pos))

w_generate_sequence_steps(G, patterns, in_cut, input, p) ==
    IF patterns = <<>> THEN WOk(<<>>, p)
    ELSE IF patterns[1].k = "Cut"
    THEN w_generate_sequence_steps(G, Tail(patterns), TRUE, input, p)
    ELSE w_sequence_rest(G, Tail(patterns), in_cut, input,
                         w_generate_step(G, patterns[1], in_cut, input, p))

\* the value a parser of a tuple contributes
w_tuple_value(r) == IF ~r.ok THEN r ELSE WOk(<<r.val>>, r.pos)

w_parser_rest(G, seq, in_cut, input, r1) ==
    IF ~r1.ok THEN r1
    ELSE w_then_result(r1, w_generate_sequence_parser(G, seq, in_cut, input, r1.pos))

\* generate_sequence_parser: the tuple of the parsers of a sequence
w_generate_sequence_parser(G, seq, in_cut, input, p) ==
    IF seq = <<>> THEN WOk(<<>>, p)
    ELSE IF seq[1].k = "Cut"
    THEN w_generate_sequence_parser(G, Tail(seq), TRUE, input, p)
    ELSE w_parser_rest(G, Tail(seq), in_cut, input,
             w_tuple_value(IF in_cut THEN cut_err(w_generate_parser_expr(G, seq[1], input, p))
                           ELSE w_generate_parser_expr(G, seq[1], input, p)))

\* Ok(action) after the steps of a variant with result st
w_action_result(action, env, st) ==
    IF ~st.ok THEN st ELSE WOk(EvalAction(action, env \o st.val), st.pos)

\* the closure generate_variants_body makes of a variant
w_variant_parser(G, variant, input, p) ==
    w_action_result(variant.action, <<>>,
                    w_generate_sequence_steps(G, variant.pattern, FALSE, input, p))

\* alt after alternative i with result r: a Backtrack error resets the input
\* and tries the next alternative, any other result is returned
w_alt_next(G, alts, i, is_rule, input, p, r) ==
    IF r.ok \/ r.hang \/ r.cut THEN r
    ELSE IF i = Len(alts) THEN [r EXCEPT !.pos = p]
    ELSE w_alt(G, alts, i + 1, is_rule, input, p)

\* winnow::combinator::alt over the alternatives i.. of a group (is_rule
\* FALSE) or over the variants i.. of a rule (is_rule TRUE)
w_alt(G, alts, i, is_rule, input, p) ==
    w_alt_next(G, alts, i, is_rule, input, p,
               IF is_rule THEN w_variant_parser(G, alts[i], input, p)
               ELSE w_generate_sequence_parser(G, alts[i], FALSE, input, p))

\* winnow::combinator::opt
w_opt(p, r) ==
    IF r.ok THEN WOk(Some(r.val), r.pos)
    ELSE IF r.cut \/ r.hang THEN r
    ELSE WOk(None, p)

w_generate_parser_expr(G, pattern, input, p) ==
    CASE pattern.k = "RuleCall" ->
           IF pattern.rule_name \in RuleNames(G) THEN w_parse_rule(G, pattern.rule_name, input, p)
           ELSE w_builtin(pattern.rule_name, input, p)
      [] pattern.k = "Lit" -> w_literal(input, p, pattern.t)
      [] pattern.k = "Group" -> w_alt(G, pattern.alts, 1, FALSE, input, p)
      [] pattern.k = "Optional" -> w_opt(p, w_generate_parser_expr(G, pattern.inner, input, p))
      [] pattern.k = "Cut" -> WOk(<<>>, p)

\* generate_variants_body
w_generate_variants_body(G, variants, input, p) ==
    IF Len(variants) = 1 THEN w_variant_parser(G, variants[1], input, p)
    ELSE w_alt(G, variants, 1, TRUE, input, p)

\* match attempt { Ok(val) => .., Err(Backtrack) => reset, Err(e) => return Err(e) }
w_arm_result(p, r) == IF ~r.ok /\ ~r.cut /\ ~r.hang THEN [r EXCEPT !.pos = p] ELSE r

\* one arm of generate_recursive_loop_body: WOk(v): lhs = v; continue; a Cut
\* error: return Err(e); a Backtrack error: reset, control falls through
w_recursive_loop_arm(G, variant, seed, input, p) ==
    w_arm_result(p,
        w_action_result(variant.action,
                        IF variant.pattern[1].binding /= None THEN <<seed>> ELSE <<>>,
                        w_generate_sequence_steps(G, Tail(variant.pattern), FALSE, input, p)))

RECURSIVE w_recursive_loop_arms(_, _, _, _, _, _)
w_next_loop_arm(G, variants, i, seed, input, p, a) ==
    IF a.ok \/ a.cut \/ a.hang THEN a
    ELSE w_recursive_loop_arms(G, variants, i + 1, seed, input, p)

w_recursive_loop_arms(G, variants, i, seed, input, p) ==
    IF i > Len(variants) THEN WErr(FALSE, NoErr, p)
    ELSE w_next_loop_arm(G, variants, i, seed, input, p,
                         w_recursive_loop_arm(G, variants[i], seed, input, p))

\* after the arms of one iteration with result a: an iteration that replaces
\* the seed without moving the input repeats forever
w_loop_next(G, variants, seed, input, p, a) ==
    IF a.ok THEN IF a.pos = p THEN WHang(p)
                 ELSE w_recursive_loop(G, variants, a.val, input, a.pos)
    ELSE IF a.cut \/ a.hang THEN a
    ELSE WOk(seed, p)

\* loop { arms; break } Ok(lhs)
w_recursive_loop(G, variants, seed, input, p) ==
    w_loop_next(G, variants, seed, input, p,
                w_recursive_loop_arms(G, variants, 1, seed, input, p))

\* let mut lhs = base_parser?; loop { .. }
w_loop_after_base(G, variants, input, base) ==
    IF ~base.ok THEN base
    ELSE w_recursive_loop(G, variants, base.val, input, base.pos)

\* generate_rule: parse_<rule>
w_parse_rule(G, name, input, p) ==
    IF split_left_recursive(name, RuleOf(G, name).variants).recursive = <<>>
    THEN w_generate_variants_body(G, RuleOf(G, name).variants, input, p)
    ELSE w_loop_after_base(G, split_left_recursive(name, RuleOf(G, name).variants).recursive,
             input,
             w_generate_variants_body(G, split_left_recursive(name, RuleOf(G, name).variants).base,
                                      input, p))

(***************************************************************************)
(* The grammars the synthesized parsers are built from.  main: the rule    *)
(* whose public entry point is called; alphabet: the words inputs are made *)
(* of; backends: the code generators that accept the grammar (the winnow   *)
(* generator rejects Recover, and its repeat combinator is not part of the *)
(* repository).                                                            *)
(***************************************************************************)
Both == {"syn", "winnow"}

\* comprehensive_test.rs, test_backtracking_priority
backtrack ==
    [rules |-> << Rule("main", << RuleVariant(<<Lit("a"), Lit("b")>>, Const(2)),
                                  RuleVariant(<<Lit("a")>>, Const(1)) >>) >>,
     inherits |-> None, main |-> "main", alphabet |-> {"a", "b"}, backends |-> Both]

\* a literal-first alternative before an alternative that starts with a rule call
unique_call ==
    [rules |-> << Rule("main", << RuleVariant(<<Lit("a"), Lit("b")>>, Const(1)),
                                  RuleVariant(<<RuleCall(Some("k"), "kw")>>, Const(2)) >>),
                  Rule("kw", << RuleVariant(<<Lit("a"), Lit("c")>>, Const(3)) >>) >>,
     inherits |-> None, main |-> "main", alphabet |-> {"a", "b", "c"}, backends |-> Both]

\* a literal-first alternative before an alternative that starts with an optional literal
unique_optional ==
    [rules |-> << Rule("main", << RuleVariant(<<Lit("a"), Lit("b")>>, Const(1)),
                                  RuleVariant(<<Optional(Lit("a")), Lit("c")>>, Const(2)) >>) >>,
     inherits |-> None, main |-> "main", alphabet |-> {"a", "b", "c"}, backends |-> Both]

\* comprehensive_test.rs, test_cut_operator
cut_test ==
    [rules |-> << Rule("main", << RuleVariant(<<Lit("let"), Cut, Lit("mut")>>, Const(1)),
                                  RuleVariant(<<Lit("let")>>, Const(2)) >>) >>,
     inherits |-> None, main |-> "main", alphabet |-> {"let", "mut"}, backends |-> Both]

\* safety_critical.rs, CutSafety
CutSafety ==
    [rules |-> << Rule("deterministic_choice",
                       << RuleVariant(<<Lit("commit"), Cut, Lit("success")>>, Const(1)),
                          RuleVariant(<<Lit("commit"), Lit("failure")>>, Const(2)),
                          RuleVariant(<<Lit("other")>>, Const(3)) >>) >>,
     inherits |-> None, main |-> "deterministic_choice",
     alphabet |-> {"commit", "failure", "commitfailure"}, backends |-> Both]

\* CutSafety written without the cut
NoCut ==
    [rules |-> << Rule("main", << RuleVariant(<<Lit("commit"), Lit("success")>>, Const(1)),
                                  RuleVariant(<<Lit("commit"), Lit("failure")>>, Const(2)) >>) >>,
     inherits |-> None, main |-> "main",
     alphabet |-> {"commit", "success", "failure", "commitfailure"}, backends |-> Both]

\* a cut in a recursive-tail variant
cut_tail ==
    [rules |-> << Rule("e", << RuleVariant(<<RuleCall(Some("l"), "e"), Lit("+"), Cut, Lit("x")>>, Const(1)),
                               RuleVariant(<<RuleCall(Some("l"), "e"), Lit("+"), Lit("y")>>, Const(2)),
                               RuleVariant(<<Lit("n")>>, Const(0)) >>) >>,
     inherits |-> None, main |-> "e", alphabet |-> {"n", "+", "y"}, backends |-> Both]

\* comprehensive_test.rs, test_cut_in_repetition
cut_loop ==
    [rules |-> << Rule("main", << RuleVariant(<<Repeat(RuleCall(Some("entries"), "entry"))>>, Count) >>),
                  Rule("entry", << RuleVariant(<<Lit("key"), Cut, Lit("="), Lit("val"), Lit(";")>>, Const(0)),
                                   RuleVariant(<<Lit("other"), Lit(";")>>, Const(0)) >>) >>,
     inherits |-> None, main |-> "main", alphabet |-> {"key", "=", "val", ";"}, backends |-> {"syn"}]

\* a rule with a cut called from an optional
cut_optional ==
    [rules |-> << Rule("main", << RuleVariant(<<Optional(RuleCall(Some("d"), "decl")), Lit("end")>>, Const(1)) >>),
                  Rule("decl", << RuleVariant(<<Lit("let"), Cut, Lit("mut")>>, Const(0)),
                                  RuleVariant(<<Lit("let")>>, Const(0)) >>) >>,
     inherits |-> None, main |-> "main", alphabet |-> {"let", "mut", "end"}, backends |-> Both]

\* comprehensive_test.rs, test_left_recursion
left_rec ==
    [rules |-> << Rule("expr", << RuleVariant(<<RuleCall(Some("l"), "expr"), Lit("-"),
                                                RuleCall(Some("r"), "integer")>>, Sub),
                                  RuleVariant(<<RuleCall(Some("i"), "integer")>>, First) >>) >>,
     inherits |-> None, main |-> "expr", alphabet |-> {"10", "2", "3", "-"}, backends |-> Both]

\* a recursive tail that starts with an optional literal
optional_tail ==
    [rules |-> << Rule("e", << RuleVariant(<<RuleCall(Some("l"), "e"), Optional(Lit("x")), Lit("y")>>, Const(1)),
                               RuleVariant(<<Lit("n")>>, Const(0)) >>) >>,
     inherits |-> None, main |-> "e", alphabet |-> {"n", "x", "y"}, backends |-> Both]

\* a recursive tail that matches the empty string
empty_tail ==
    [rules |-> << Rule("e", << RuleVariant(<<RuleCall(Some("l"), "e"), Optional(Lit("x"))>>, Const(1)),
                               RuleVariant(<<Lit("a")>>, Const(0)) >>) >>,
     inherits |-> None, main |-> "e", alphabet |-> {"a", "x"}, backends |-> Both]

\* the same, the optional literal behind a rule call
empty_call_tail ==
    [rules |-> << Rule("e", << RuleVariant(<<RuleCall(Some("l"), "e"), RuleCall(Some("k"), "ox")>>, Const(1)),
                               RuleVariant(<<Lit("a")>>, Const(0)) >>),
                  Rule("ox", << RuleVariant(<<Optional(Lit("x"))>>, Const(0)) >>) >>,
     inherits |-> None, main |-> "e", alphabet |-> {"a", "x"}, backends |-> Both]

\* recovery_test.rs, test_attempt_recover_behavior
recover_check ==
    [rules |-> << Rule("main", << RuleVariant(<<Recover(Some("res"), RuleCall(None, "inner"), Lit("end")),
                                                Lit("end")>>, First) >>),
                  Rule("inner", << RuleVariant(<<Lit("start"), RuleCall(Some("i"), "integer")>>, First) >>) >>,
     inherits |-> None, main |-> "main", alphabet |-> {"start", "10", "end", "broken"}, backends |-> {"syn"}]

\* recovery_test.rs, test_failure_recovery
recovery ==
    [rules |-> << Rule("main", << RuleVariant(<<Repeat(RuleCall(Some("stmts"), "stmt_wrapper"))>>, First) >>),
                  Rule("stmt_wrapper", << RuleVariant(<<Recover(Some("s"), RuleCall(None, "stmt"), Lit(";")),
                                                        Lit(";")>>, First) >>),
                  Rule("stmt", << RuleVariant(<<Lit("let"), RuleCall(Some("name"), "ident")>>, First) >>) >>,
     inherits |-> None, main |-> "main", alphabet |-> {"let", "a", ";"}, backends |-> {"syn"}]

\* two alternatives that fail at different depths, the deeper one first
deep_first ==
    [rules |-> << Rule("main", << RuleVariant(<<Lit("a"), Lit("b"), Lit("c")>>, Const(2)),
                                  RuleVariant(<<Lit("a"), Lit("d")>>, Const(1)) >>) >>,
     inherits |-> None, main |-> "main", alphabet |-> {"a", "b", "d"}, backends |-> {"syn"}]

\* the same alternatives, the shallower one first
shallow_first ==
    [rules |-> << Rule("main", << RuleVariant(<<Lit("a"), Lit("d")>>, Const(1)),
                                  RuleVariant(<<Lit("a"), Lit("b"), Lit("c")>>, Const(2)) >>) >>,
     inherits |-> None, main |-> "main", alphabet |-> {"a", "b", "d"}, backends |-> {"syn"}]

\* error_reporting_test.rs, test_deepest_error_wins
distinct ==
    [rules |-> << Rule("main", << RuleVariant(<<RuleCall(Some("l"), "long")>>, First),
                                  RuleVariant(<<RuleCall(Some("s"), "short")>>, First) >>),
                  Rule("long", << RuleVariant(<<Lit("a"), Lit("b"), Lit("c")>>, Const(2)) >>),
                  Rule("short", << RuleVariant(<<Lit("a"), Lit("d")>>, Const(1)) >>) >>,
     inherits |-> None, main |-> "main", alphabet |-> {"a", "b", "d"}, backends |-> {"syn"}]

\* comprehensive_test.rs, test_plus_operator_validation
plus_check ==
    [rules |-> << Rule("main", << RuleVariant(<<Plus(RuleCall(Some("ids"), "ident"))>>, First) >>) >>,
     inherits |-> None, main |-> "main", alphabet |-> {"a", "b", "1"}, backends |-> {"syn"}]

\* rule main = ("x"? v:integer)* -> { v }
repeat_peek ==
    [rules |-> << Rule("main", << RuleVariant(
                      <<Repeat(Group(<< <<Optional(Lit("x")), RuleCall(Some("v"), "integer")>> >>))>>,
                      First) >>) >>,
     inherits |-> None, main |-> "main", alphabet |-> {"x", "1"}, backends |-> {"syn"}]

\* CutSafety with the alternative without cut first:
\* rule main = "commit" "failure" -> 2 | "commit" => "success" -> 1
cut_second ==
    [rules |-> << Rule("main", << RuleVariant(<<Lit("commit"), Lit("failure")>>, Const(2)),
                                  RuleVariant(<<Lit("commit"), Cut, Lit("success")>>, Const(1)) >>) >>,
     inherits |-> None, main |-> "main", alphabet |-> {"commit", "success"}, backends |-> {"syn"}]

\* rule main = ("a" "a"? | paren("a"?))+ -> 1
delimited ==
    [rules |-> << Rule("main", << RuleVariant(
                      <<Plus(Group(<< <<Lit("a"), Optional(Lit("a"))>>,
                                      <<Parenthesized(<<Optional(Lit("a"))>>)>> >>))>>,
                      Const(1)) >>) >>,
     inherits |-> None, main |-> "main", alphabet |-> {"a", "(", ")"}, backends |-> {"syn"}]

\* rule main = "a"?* "b" -> 1
nullable_repeat ==
    [rules |-> << Rule("main", << RuleVariant(<<Repeat(Optional(Lit("a"))), Lit("b")>>,
                                              Const(1)) >>) >>,
     inherits |-> None, main |-> "main", alphabet |-> {"a", "b"}, backends |-> {"syn"}]

Grammars ==
    << backtrack, unique_call, unique_optional, cut_test, CutSafety, NoCut, cut_tail,
       cut_loop, cut_optional, left_rec, optional_tail, empty_tail, empty_call_tail,
       recover_check, recovery, deep_first, shallow_first, distinct, plus_check,
       repeat_peek, cut_second, delimited, nullable_repeat >>

\* the inputs: the sequences of at most MaxLen words over an alphabet
RECURSIVE SeqsUpTo(_, _)
SeqsUpTo(S, n) ==
    IF n = 0 THEN {<<>>}
    ELSE LET shorter == SeqsUpTo(S, n - 1)
         IN  shorter \cup {Append(w, t) : w \in shorter, t \in S}

Inputs(g) == {w \in SeqsUpTo(g.alphabet, MaxLen) : balanced_from(w, 1, 0)}

(***************************************************************************)
(* The parse specification: one call of the public entry point of the main *)
(* rule of a grammar on one input.  A rule without left recursion returns  *)
(* in one step; the loop of a left-recursive rule takes one step per       *)
(* iteration.                                                              *)
(***************************************************************************)
G == Grammars[gid].rules
MainName == Grammars[gid].main
MainRule == RuleOf(G, MainName)
MainSplit == split_left_recursive(MainName, MainRule.variants)

NoOut == [status |-> "none", val |-> <<>>, err |-> NoErr]
NoRet == [fn |-> "none", kind |-> "none", body |-> "none", body_fatal |-> FALSE,
          body_err |-> NoErr, err |-> NoErr]

\* the grammar macro has not run
NoGen == [validator |-> "none", stage |-> "none", next |-> 0, errors |-> <<>>, routines |-> {}]

\* nothing was given to record_error yet
NoOffer == [first |-> None, deep |-> None, last |-> None]

\* what the caller of the public entry point gets
Outcome(r) ==
    [status |-> IF r.hang THEN "hang" ELSE IF r.ok THEN "ok" ELSE "err",
     val |-> r.val, err |-> r.err]

RtUnused == /\ frames = <<>>
            /\ cur = 0
            /\ ret = NoRet
            /\ ops = 0
            /\ offered = NoOffer
            /\ gen = NoGen

Init ==
    /\ mode = "parse"
    /\ gid \in 1..Len(Grammars)
    /\ backend \in Grammars[gid].backends
    /\ inp \in Inputs(Grammars[gid])
    /\ pc = "ready"
    /\ pos = 0
    /\ ctx = ParseContext_new
    /\ lhs = 0
    /\ iters = 0
    /\ out = NoOut
    /\ RtUnused

\* the public entry point returns fin
SynReturn(fin) ==
    /\ pc' = "done"
    /\ pos' = fin.pos
    /\ ctx' = fin.ctx
    /\ out' = Outcome(fin)

\* syn backend, a rule without left recursion
SynParseRule ==
    /\ mode = "parse" /\ backend = "syn" /\ pc = "ready"
    /\ MainSplit.recursive = <<>>
    /\ SynReturn(parse_rule(G, MainName, syn_stream(inp)))
    /\ UNCHANGED <<mode, backend, gid, inp, lhs, iters, frames, cur, ret, ops, offered, gen>>

\* after the base variants returned base: the loop starts, or the rule returns
SynAfterBase(base) ==
    IF base.ok
    THEN /\ pc' = "loop"
         /\ lhs' = base.val
         /\ pos' = base.pos
         /\ ctx' = base.ctx
         /\ out' = out
    ELSE /\ SynReturn(parse_rule_result(leave_rule(base)))
         /\ lhs' = lhs

\* syn backend, a left-recursive rule: enter_rule and the base variants
SynParseBase ==
    /\ mode = "parse" /\ backend = "syn" /\ pc = "ready"
    /\ MainSplit.recursive /= <<>>
    /\ SynAfterBase(generate_variants_internal(G, MainSplit.base, TRUE, syn_stream(inp), 0,
                                               enter_rule(ParseContext_new, MainName)))
    /\ UNCHANGED <<mode, backend, gid, inp, iters, frames, cur, ret, ops, offered, gen>>

\* after the arms of one iteration returned a: continue, or the rule returns
SynAfterArms(a) ==
    IF a.ok /\ a.some
    THEN /\ pc' = "loop"
         /\ lhs' = a.val
         /\ pos' = a.pos
         /\ ctx' = a.ctx
         /\ iters' = iters + 1
         /\ out' = out
    ELSE /\ SynReturn(parse_rule_result(leave_rule(IF a.ok THEN Ok(lhs, pos, a.ctx) ELSE a)))
         /\ UNCHANGED <<lhs, iters>>

\* syn backend, a left-recursive rule: one iteration of the loop
SynLoopStep ==
    /\ mode = "parse" /\ backend = "syn" /\ pc = "loop"
    /\ iters < MaxIter
    /\ SynAfterArms(recursive_loop_arms(G, MainSplit.recursive, 1, lhs, syn_stream(inp), pos, ctx))
    /\ UNCHANGED <<mode, backend, gid, inp, frames, cur, ret, ops, offered, gen>>

WinReturn(res) ==
    /\ pc' = "done"
    /\ pos' = res.pos
    /\ out' = Outcome(res)

\* winnow backend, a rule without left recursion
WinParseRule ==
    /\ mode = "parse" /\ backend = "winnow" /\ pc = "ready"
    /\ MainSplit.recursive = <<>>
    /\ WinReturn(w_parse_rule(G, MainName, winnow_stream(inp), 0))
    /\ UNCHANGED <<mode, backend, gid, inp, ctx, lhs, iters, frames, cur, ret, ops, offered, gen>>

WinAfterBase(base) ==
    IF base.ok
    THEN /\ pc' = "loop"
         /\ lhs' = base.val
         /\ pos' = base.pos
         /\ out' = out
    ELSE /\ WinReturn(base)
         /\ lhs' = lhs

\* winnow backend, a left-recursive rule: the base variants
WinParseBase ==
    /\ mode = "parse" /\ backend = "winnow" /\ pc = "ready"
    /\ MainSplit.recursive /= <<>>
    /\ WinAfterBase(w_generate_variants_body(G, MainSplit.base, winnow_stream(inp), 0))
    /\ UNCHANGED <<mode, backend, gid, inp, ctx, iters, frames, cur, ret, ops, offered, gen>>

WinAfterArms(a) ==
    IF a.ok
    THEN /\ pc' = "loop"
         /\ lhs' = a.val
         /\ pos' = a.pos
         /\ iters' = iters + 1
         /\ out' = out
    ELSE /\ WinReturn(IF a.cut \/ a.hang THEN a ELSE WOk(lhs, pos))
         /\ UNCHANGED <<lhs, iters>>

\* winnow backend, a left-recursive rule: one iteration of the loop
WinLoopStep ==
    /\ mode = "parse" /\ backend = "winnow" /\ pc = "loop"
    /\ iters < MaxIter
    /\ WinAfterArms(w_recursive_loop_arms(G, MainSplit.recursive, 1, lhs, winnow_stream(inp), pos))
    /\ UNCHANGED <<mode, backend, gid, inp, ctx, frames, cur, ret, ops, offered, gen>>

Next ==
    \/ SynParseRule
    \/ SynParseBase
    \/ SynLoopStep
    \/ WinParseRule
    \/ WinParseBase
    \/ WinLoopStep

Spec == Init /\ [][Next]_vars

(***************************************************************************)
(* The runtime specification: the ParseContext and the speculative calls   *)
(* of grammar-kit driven directly.  A closure is any sequence of context   *)
(* operations and token consumptions, ended by its return of Ok or of an   *)
(* error; frames holds, for every speculative call in progress, what the   *)
(* function keeps on its stack (snap) and the context and cursor it was    *)
(* called with (entry, entry_pos).                                         *)
(***************************************************************************)
RtRules == {"r", "s"}
RtNames == {"x"}

ParseUnused == /\ backend = "syn"
               /\ gid = 1
               /\ inp = <<>>
               /\ pc = "rt"
               /\ pos = 0
               /\ lhs = 0
               /\ iters = 0
               /\ out = NoOut

InitRt ==
    /\ mode = "rt"
    /\ ctx = ParseContext_new
    /\ cur = 0
    /\ frames = <<>>
    /\ ret = NoRet
    /\ ops = 0
    /\ offered = NoOffer
    /\ gen = NoGen
    /\ ParseUnused

RtStep == /\ mode = "rt"
          /\ ops < MaxOps
          /\ ops' = ops + 1
          /\ UNCHANGED <<mode, backend, gid, inp, pc, pos, lhs, iters, out, gen>>

RtEnterRule ==
    /\ RtStep
    /\ Len(ctx.rule_stack) < MaxStack + Len(frames)
    /\ \E name \in RtRules : ctx' = enter_rule(ctx, name)
    /\ UNCHANGED <<frames, cur, ret, offered>>

RtExitRule ==
    /\ RtStep
    /\ ctx' = exit_rule(ctx)
    /\ UNCHANGED <<frames, cur, ret, offered>>

RtEnterScope ==
    /\ RtStep
    /\ Len(ctx.scopes) <= MaxScopes
    /\ ctx' = enter_scope(ctx)
    /\ UNCHANGED <<frames, cur, ret, offered>>

RtExitScope ==
    /\ RtStep
    /\ ctx' = exit_scope(ctx)
    /\ UNCHANGED <<frames, cur, ret, offered>>

RtDefine ==
    /\ RtStep
    /\ \E name \in RtNames : ctx' = define(ctx, name)
    /\ UNCHANGED <<frames, cur, ret, offered>>

RtSetFatal ==
    /\ RtStep
    /\ \E fatal \in BOOLEAN : ctx' = set_fatal(ctx, fatal)
    /\ UNCHANGED <<frames, cur, ret, offered>>

\* a token is parsed from the innermost stream and its span recorded
RtConsume ==
    /\ RtStep
    /\ cur < MaxRtPos
    /\ cur' = cur + 1
    /\ ctx' = record_span(ctx, cur)
    /\ UNCHANGED <<frames, ret, offered>>

\* what offered becomes when record_error(err, start_span) is called on c
offer(o, c, err, start_span) ==
    [first |-> IF o.first = None THEN Some(enrich(c, err)) ELSE o.first,
     deep |-> IF o.deep = None /\ err.pos /= start_span THEN Some(enrich(c, err)) ELSE o.deep,
     last |-> Some([err |-> enrich(c, err), is_deep |-> err.pos /= start_span])]

\* ParseContext::record_error called with an error at epos for an attempt
\* that started at start_span
RtRecordError ==
    /\ RtStep
    /\ \E start_span \in 0..cur : \E epos \in start_span..cur :
         /\ ctx' = record_error(ctx, Error(epos, <<"expected", "t">>), start_span)
         /\ offered' = offer(offered, ctx, Error(epos, <<"expected", "t">>), start_span)
    /\ UNCHANGED <<frames, cur, ret>>

\* the end of a rule body or of a group none of whose variants matched:
\* take_best_error, just before the Err is returned
RtNoVariant ==
    /\ RtStep
    /\ ctx' = take_best_error_ctx(ctx)
    /\ offered' = NoOffer
    /\ UNCHANGED <<frames, cur, ret>>

\* the speculative calls of the runtime, each up to the call of its closure
\* (call_enter) and from the closure's return r to its own (call_exit)
RtCalls == {"attempt", "attempt_recover", "peek", "not_check"}

call_enter(fn, c, p) ==
    CASE fn = "attempt" -> attempt_enter(c, p)
      [] fn = "attempt_recover" -> attempt_recover_enter(c, p)
      [] fn = "peek" -> peek_enter(c, p)
      [] fn = "not_check" -> not_check_enter(c, p)

call_exit(fn, s, p, r) ==
    CASE fn = "attempt" -> attempt_exit(s, p, r)
      [] fn = "attempt_recover" -> attempt_recover_exit(s, p, r)
      [] fn = "peek" -> peek_exit(s, p, r)
      [] fn = "not_check" -> not_check_exit(s, p, r)

\* whether the call hands the closure's result r to record_error
call_records(fn, r) ==
    /\ ~r.ok
    /\ \/ fn = "attempt_recover"
       \/ fn = "attempt" /\ ~check_fatal(r.ctx)

RtCallBegin(fn) ==
    /\ RtStep
    /\ Len(frames) < MaxDepth
    /\ frames' = <<[kind |-> fn, snap |-> call_enter(fn, ctx, cur),
                    entry |-> ctx, entry_pos |-> cur]>> \o frames
    /\ ctx' = call_enter(fn, ctx, cur).ctx
    /\ UNCHANGED <<cur, ret, offered>>

\* rt::attempt up to the call of the closure
RtAttemptBegin == RtCallBegin("attempt")

\* the closure returned r: the call from there to its own return res
RtAttemptReturn(r, res) ==
    /\ frames' = Tail(frames)
    /\ ctx' = res.ctx
    /\ cur' = res.pos
    /\ ret' = [fn |-> frames[1].kind,
               kind |-> IF ~res.ok THEN "err" ELSE IF res.some THEN "some" ELSE "none",
               body |-> IF r.ok THEN "ok" ELSE "err",
               body_fatal |-> check_fatal(r.ctx),
               body_err |-> r.err,
               err |-> res.err]
    /\ offered' = IF call_records(frames[1].kind, r)
                  THEN offer(offered, r.ctx, r.err, frames[1].snap.start_span)
                  ELSE offered

RtCallEnd(fn, r) ==
    /\ RtStep
    /\ frames /= <<>>
    /\ frames[1].kind = fn
    /\ RtAttemptReturn(r, call_exit(fn, frames[1].snap, frames[1].entry_pos, r))

RtAttemptEndOk == RtCallEnd("attempt", Ok(<<>>, cur, ctx))

RtAttemptEndErr ==
    /\ frames /= <<>>
    /\ \E epos \in frames[1].entry_pos..cur :
        RtCallEnd("attempt", Err(Error(epos, <<"expected", "t">>), cur, ctx))

\* rt::attempt_recover
RtRecoverBegin == RtCallBegin("attempt_recover")

RtRecoverEndOk == RtCallEnd("attempt_recover", Ok(<<>>, cur, ctx))

RtRecoverEndErr ==
    /\ frames /= <<>>
    /\ \E epos \in frames[1].entry_pos..cur :
        RtCallEnd("attempt_recover", Err(Error(epos, <<"expected", "t">>), cur, ctx))

\* rt::peek and rt::not_check
RtLookaheadBegin == \E fn \in {"peek", "not_check"} : RtCallBegin(fn)

RtLookaheadEndOk == \E fn \in {"peek", "not_check"} : RtCallEnd(fn, Ok(<<"v">>, cur, ctx))

RtLookaheadEndErr ==
    /\ frames /= <<>>
    /\ \E fn \in {"peek", "not_check"} : \E epos \in frames[1].entry_pos..cur :
        RtCallEnd(fn, Err(Error(epos, <<"expected", "t">>), cur, ctx))

NextRt ==
    \/ RtEnterRule
    \/ RtExitRule
    \/ RtEnterScope
    \/ RtExitScope
    \/ RtDefine
    \/ RtSetFatal
    \/ RtConsume
    \/ RtRecordError
    \/ RtNoVariant
    \/ RtAttemptBegin
    \/ RtAttemptEndOk
    \/ RtAttemptEndErr
    \/ RtRecoverBegin
    \/ RtRecoverEndOk
    \/ RtRecoverEndErr
    \/ RtLookaheadBegin
    \/ RtLookaheadEndOk
    \/ RtLookaheadEndErr

SpecRt == InitRt /\ [][NextRt]_vars

(***************************************************************************)
(* Static analysis that rejects a grammar before synthesis: an alternative *)
(* shadows a later sibling when it is identical to it or a term-by-term    *)
(* prefix of it.                                                           *)
(***************************************************************************)
shadows(a, b) == Len(a) <= Len(b) /\ SubSeq(b, 1, Len(a)) = a

has_shadowing(variants) ==
    \E i, j \in 1..Len(variants) : i < j /\ shadows(variants[i].pattern, variants[j].pattern)

(***************************************************************************)
(* Vocabulary of the properties.                                           *)
(***************************************************************************)
Done == mode = "parse" /\ pc = "done"
Stream == IF backend = "syn" THEN syn_stream(inp) ELSE winnow_stream(inp)
NoLeftRecursion ==
    \A r \in 1..Len(G) : split_left_recursive(G[r].name, G[r].variants).recursive = <<>>
NoShadowing == \A r \in 1..Len(G) : ~has_shadowing(G[r].variants)
CutFree ==
    \A r \in 1..Len(G) : \A v \in 1..Len(G[r].variants) : find_cut(G[r].variants[v].pattern) = None

\* alternative i of the main rule run on its own at the start of the input
SynAlone(i) ==
    generate_sequence(G, MainRule.variants[i].pattern, MainRule.variants[i].action, <<>>,
                      syn_stream(inp), 0, enter_rule(ParseContext_new, MainName))
WinAlone(i) == w_variant_parser(G, MainRule.variants[i], winnow_stream(inp), 0)
AltMatches(i) == IF backend = "syn" THEN SynAlone(i).ok ELSE WinAlone(i).ok
AltValue(i) == IF backend = "syn" THEN SynAlone(i).val ELSE WinAlone(i).val
Alts == 1..Len(MainRule.variants)
FirstMatching == CHOOSE i \in Alts : AltMatches(i) /\ \A j \in 1..(i - 1) : ~AltMatches(j)

\* C1: in a grammar without left recursion and without shadowed alternatives
\* (here also without cuts), whenever some alternative of the rule matches the
\* input, the rule parser returns the value of the lowest-indexed alternative
\* that matches.
C1_OrderedChoice ==
    (Done /\ NoLeftRecursion /\ NoShadowing /\ CutFree /\ \E i \in Alts : AltMatches(i))
        => (out.status = "ok" /\ out.val = AltValue(FirstMatching))
\* a pattern sequence run on its own at position p, with seed bound by a
\* recursive-tail variant
FreshCtx == enter_rule(ParseContext_new, MainName)
SeqOk(patterns, p) ==
    IF backend = "syn" THEN generate_sequence_steps(G, patterns, Stream, p, FreshCtx).ok
    ELSE w_generate_sequence_steps(G, patterns, FALSE, Stream, p).ok
SeqEnd(patterns, p) ==
    IF backend = "syn" THEN generate_sequence_steps(G, patterns, Stream, p, FreshCtx).pos
    ELSE w_generate_sequence_steps(G, patterns, FALSE, Stream, p).pos

\* the part of alternative i of the main rule that the parser runs, where it
\* runs it, and at which step of the rule
IsTail(i) == IsRecursiveVariant(MainName, MainRule.variants[i])
Run(i) == IF IsTail(i) THEN Tail(MainRule.variants[i].pattern) ELSE MainRule.variants[i].pattern
RunPos(i) == IF IsTail(i) THEN pos ELSE 0
RunPc(i) == IF IsTail(i) THEN "loop" ELSE "ready"

\* alternative i has a cut and is about to be tried: every earlier sibling
\* fails, the patterns before the cut match and the patterns after it do not
CommittedAndFails(i) ==
    /\ find_cut(Run(i)) /= None
    /\ pc = RunPc(i)
    /\ \A j \in 1..(i - 1) : IsTail(j) = IsTail(i) => ~SeqOk(Run(j), RunPos(i))
    /\ SeqOk(find_cut(Run(i))[1].pre_cut, RunPos(i))
    /\ ~SeqOk(find_cut(Run(i))[1].post_cut, SeqEnd(find_cut(Run(i))[1].pre_cut, RunPos(i)))

\* C2: when the patterns before the cut of an alternative have matched and a
\* pattern after the cut fails, the step of the rule ends the invocation with
\* an error (no later sibling is tried) and, in the syn backend, with the fatal
\* flag set.
C2_CutCommits ==
    [][mode = "parse" =>
         \A i \in Alts : CommittedAndFails(i) =>
             (pc' = "done" /\ out'.status = "err" /\ (backend = "syn" => ctx'.is_fatal))]_vars
\* recursive-tail alternative i run on its own at the cursor with the current
\* seed bound to its leading binding
Tails == {i \in Alts : IsTail(i)}
SeedBind(i) == IF MainRule.variants[i].pattern[1].binding /= None THEN <<lhs>> ELSE <<>>
TailAlone(i) ==
    IF backend = "syn"
    THEN generate_sequence(G, Run(i), MainRule.variants[i].action, SeedBind(i),
                           Stream, pos, FreshCtx)
    ELSE w_action_result(MainRule.variants[i].action, SeedBind(i),
                         w_generate_sequence_steps(G, Run(i), FALSE, Stream, pos))
FirstTail ==
    CHOOSE i \in Tails : TailAlone(i).ok /\ \A j \in Tails : j < i => ~TailAlone(j).ok
FirstBase ==
    CHOOSE i \in Alts \ Tails :
        AltMatches(i) /\ \A j \in Alts \ Tails : j < i => ~AltMatches(j)

\* C3: a directly left-recursive rule is a left fold: the seed is the value of
\* the first base variant that matches; each iteration replaces the seed by the
\* action value of the first recursive-tail variant (in declaration order) that
\* matches at the cursor and consumes input, and continues behind it; when no
\* tail matches the rule returns the seed.  (Grammars without cuts.)
C3_LeftFold ==
    [][(mode = "parse" /\ CutFree /\ Tails /= {}) =>
         /\ (pc = "ready" /\ \E i \in Alts \ Tails : AltMatches(i))
                => (pc' = "loop" /\ lhs' = AltValue(FirstBase))
         /\ (pc = "loop" /\ \E i \in Tails : TailAlone(i).ok /\ TailAlone(FirstTail).pos > pos)
                => (pc' = "loop" /\ lhs' = TailAlone(FirstTail).val
                                 /\ pos' = TailAlone(FirstTail).pos)
         /\ (pc = "loop" /\ \A i \in Tails : ~TailAlone(i).ok)
                => (pc' = "done" /\ out'.status = "ok" /\ out'.val = lhs)]_vars
\* C4: in both backends every iteration of the left-recursion loop that
\* replaces the seed and continues has consumed at least one token, so the
\* loop ends on every finite input.
C4_LoopProgress ==
    [][(mode = "parse" /\ pc = "loop" /\ pc' = "loop") => pos' > pos]_vars
\* the recover(body, sync) steps of the grammar, their body and the whole step
\* run at position p, and the first position at or after p whose token is the
\* first-token key of sync (the end of the input if there is none)
RecoverSteps ==
    UNION {UNION {{G[r].variants[v].pattern[k] :
                      k \in {n \in 1..Len(G[r].variants[v].pattern) :
                                G[r].variants[v].pattern[n].k = "Recover"}} :
                  v \in 1..Len(G[r].variants)} : r \in 1..Len(G)}
BodyAlone(rp, p) == generate_pattern_step(G, effective_body(rp), Stream, p, FreshCtx)
RecoverStep(rp, p) == generate_pattern_step(G, rp, Stream, p, FreshCtx)
SyncKey(rp) == get_simple_peek(rp.sync)[1]
AnchorsFrom(rp, p) == {q \in p..(Len(Stream) - 1) : Stream[q + 1] = SyncKey(rp)}
Anchor(rp, p) ==
    IF AnchorsFrom(rp, p) = {} THEN Len(Stream)
    ELSE CHOOSE q \in AnchorsFrom(rp, p) : \A q2 \in AnchorsFrom(rp, p) : q <= q2
AllAbsent(vals) == vals /= <<>> /\ \A k \in 1..Len(vals) : vals[k] = None

\* C5: when the body of recover(body, sync) fails, the step succeeds (the error
\* is swallowed and the fatal flag is as before), the cursor is at the first
\* token at or after the body's start that matches sync (or at the end of the
\* input), every name of the body is bound to None, and a following sync
\* pattern matches that token; when the body succeeds the step ends where the
\* body ended, with the body's values.  A rule `recover(body, sync) sync`
\* therefore returns the absent value just behind the anchor.
C5_RecoverResync ==
    (mode = "parse" /\ backend = "syn") =>
        /\ \A rp \in RecoverSteps : \A p \in 0..Len(Stream) :
              /\ RecoverStep(rp, p).ok
              /\ RecoverStep(rp, p).ctx.is_fatal = FreshCtx.is_fatal
              /\ BodyAlone(rp, p).ok =>
                    /\ RecoverStep(rp, p).pos = BodyAlone(rp, p).pos
                    /\ RecoverStep(rp, p).val = <<Some(BodyAlone(rp, p).val[1])>>
              /\ ~BodyAlone(rp, p).ok =>
                    /\ RecoverStep(rp, p).pos = Anchor(rp, p)
                    /\ AllAbsent(RecoverStep(rp, p).val)
                    /\ Anchor(rp, p) < Len(Stream) =>
                          generate_pattern_step(G, rp.sync, Stream, RecoverStep(rp, p).pos,
                                                RecoverStep(rp, p).ctx).ok
        /\ (Done /\ Grammars[gid] = recover_check /\ ~BodyAlone(MainRule.variants[1].pattern[1], 0).ok
                 /\ Anchor(MainRule.variants[1].pattern[1], 0) < Len(Stream))
              => (out.status = "ok" /\ out.val = None
                    /\ pos = Anchor(MainRule.variants[1].pattern[1], 0) + 1)

\* C5 happens: a parse of recover_check whose body failed before an anchor that
\* is not the next token
C5_Witness ==
    /\ Done /\ Grammars[gid] = recover_check /\ out.status = "ok"
    /\ ~BodyAlone(MainRule.variants[1].pattern[1], 0).ok
    /\ Anchor(MainRule.variants[1].pattern[1], 0) \in 1..(Len(Stream) - 1)
\* C6: in the syn backend, when the rule has run and an alternative of it is
\* classified unique with its first token next in the input, no later
\* alternative of the rule matches the input at that position (the rollback
\* that the commit skips is never needed).
C6_UniqueCommitSafe ==
    (Done /\ backend = "syn" /\ NoLeftRecursion) =>
        \A i \in Alts :
            (is_unique(MainRule.variants, i)
               /\ input_peek(Stream, 0, peek_token_obj(MainRule.variants[i])[1]))
            => \A j \in Alts : j > i => ~AltMatches(j)
StartsWith(first, second) ==
    Len(Stream) >= 2 /\ Stream[1] = first /\ Stream[2] = second

\* C7: the rule `"commit" "success" -> A | "commit" "failure" -> B` without a
\* cut backtracks: its alternatives share their first token, so none is unique,
\* and when the first fails behind `commit` the second is tried.  The rule
\* returns B exactly when the input reads `commit` `failure`, A exactly when it
\* reads `commit` `success`, and fails otherwise; the syn backend reads the
\* word `commitfailure` as one identifier, which no alternative starts with.
\* With the cut (`"commit" => "success" | "commit" "failure"`) the input
\* `commit` `failure` is a parse error.
C7_NoCutFallsThrough ==
    /\ (Done /\ Grammars[gid] = NoCut) =>
          /\ StartsWith("commit", "failure") => (out.status = "ok" /\ out.val = 2)
          /\ StartsWith("commit", "success") => (out.status = "ok" /\ out.val = 1)
          /\ (~StartsWith("commit", "failure") /\ ~StartsWith("commit", "success"))
                => out.status = "err"
          /\ (backend = "syn" /\ inp = <<"commitfailure">>)
                => (out.err = Error(0, <<"No matching rule variant found">>) /\ ~ctx.is_fatal)
    /\ (Done /\ Grammars[gid] = CutSafety /\ StartsWith("commit", "failure"))
          => (out.status = "err" /\ out.err.msg = <<"expected", "success">>)

\* C7 as stated: without a cut the input `commitfailure` ends in a parse error
C7_NoCutIsError ==
    (Done /\ Grammars[gid] = NoCut /\ inp = <<"commitfailure">>) => out.status = "err"

\* C7 happens: the winnow parser of the rule without a cut has read
\* `commitfailure` and returned B
C7_Witness ==
    /\ Done /\ Grammars[gid] = NoCut /\ backend = "winnow" /\ inp = <<"commitfailure">>
    /\ out.status = "ok" /\ out.val = 2
\* C8: in the syn backend, when every alternative of a rule with several
\* alternatives fails, the error the top-level parse reports lies at least as far into the input as the
\* failure of each alternative, whatever the order of the alternatives.
\* (Grammars without cuts and without left recursion.)
C8_DeepestErrorWins ==
    (Done /\ backend = "syn" /\ NoLeftRecursion /\ CutFree /\ Len(MainRule.variants) >= 2
          /\ \A i \in Alts : ~AltMatches(i))
        => (out.status = "err" /\ \A i \in Alts : out.err.pos >= SynAlone(i).err.pos)
\* a step in which rt::attempt returns, and the caller's context and input
\* position when it was called
AttemptEnds ==
    mode = "rt" /\ frames /= <<>> /\ frames[1].kind = "attempt" /\ frames' = Tail(frames)
Entry == frames[1].entry
EntryPos == frames[1].entry_pos

\* C9: when the body of rt::attempt fails without the fatal flag raised,
\* attempt returns Ok(None), the caller's position is the one at entry, scopes,
\* rule stack and last span are those at entry, the fatal flag has its value at
\* entry, and the error was offered to record_error with the context the body
\* left; when the body succeeds attempt returns Some, the position is the
\* fork's, scopes, rule stack, last span and best error are as the body left
\* them and the fatal flag has its value at entry.
C9_AttemptRollback ==
    [][AttemptEnds =>
         /\ (ret'.body = "err" /\ ~ctx.is_fatal) =>
               /\ ret'.kind = "none"
               /\ cur' = EntryPos
               /\ ctx'.scopes = Entry.scopes
               /\ ctx'.rule_stack = Entry.rule_stack
               /\ ctx'.last_span = Entry.last_span
               /\ ctx'.is_fatal = Entry.is_fatal
               /\ ctx'.best_error /= None
               /\ ctx'.best_error = record_error(ctx, ret'.body_err, EntryPos).best_error
         /\ ret'.body = "ok" =>
               /\ ret'.kind = "some"
               /\ cur' = cur
               /\ ctx'.scopes = ctx.scopes
               /\ ctx'.rule_stack = ctx.rule_stack
               /\ ctx'.last_span = ctx.last_span
               /\ ctx'.best_error = ctx.best_error
               /\ ctx'.is_fatal = Entry.is_fatal]_vars

\* C9 happens: an attempt whose body failed has returned Ok(None) and the
\* error is recorded
C9_Witness ==
    /\ mode = "rt" /\ frames = <<>> /\ ret.fn = "attempt"
    /\ ret.kind = "none" /\ ret.body = "err"
    /\ ctx.best_error /= None /\ ctx.best_error[1].err.pos = ret.body_err.pos

\* C10: when the body of rt::attempt fails with the fatal flag raised, attempt
\* returns the body's error with the fatal flag set, after restoring scopes,
\* rule stack and last span to their values at entry; the position is the one
\* at entry and the error is not offered to record_error.
C10_AttemptFatal ==
    [][(AttemptEnds /\ ret'.body = "err" /\ ctx.is_fatal) =>
         /\ ret'.kind = "err"
         /\ ret'.err = ret'.body_err
         /\ ctx'.is_fatal
         /\ ctx'.scopes = Entry.scopes
         /\ ctx'.rule_stack = Entry.rule_stack
         /\ ctx'.last_span = Entry.last_span
         /\ ctx'.best_error = ctx.best_error
         /\ cur' = EntryPos]_vars

\* C10 as stated: the fatal failure is returned with scopes and rule stack as
\* the body left them
C10_FatalWithoutRestore ==
    [][(AttemptEnds /\ ret'.body = "err" /\ ctx.is_fatal) =>
         /\ ret'.kind = "err"
         /\ ctx'.is_fatal
         /\ ctx'.scopes = ctx.scopes
         /\ ctx'.rule_stack = ctx.rule_stack]_vars

\* C10 happens: an attempt whose body failed fatally has returned the error
C10_Witness ==
    /\ mode = "rt" /\ frames = <<>> /\ ret.fn = "attempt"
    /\ ret.kind = "err" /\ ret.body = "err" /\ ret.err = ret.body_err
    /\ ctx.is_fatal
\* a step in which rt::peek or rt::not_check returns
LookaheadEnds ==
    /\ mode = "rt" /\ frames /= <<>> /\ frames' = Tail(frames)
    /\ frames[1].kind \in {"peek", "not_check"}

\* C11: when rt::peek or rt::not_check returns, whether its inner parser
\* succeeded or failed, the caller's input position, scopes, rule stack, last
\* span and fatal flag are those at the call; peek returns the inner parser's
\* result and not_check returns Ok exactly when the inner parser failed.
C11_LookaheadPure ==
    [][LookaheadEnds =>
         /\ cur' = EntryPos
         /\ ctx'.scopes = Entry.scopes
         /\ ctx'.rule_stack = Entry.rule_stack
         /\ ctx'.last_span = Entry.last_span
         /\ ctx'.is_fatal = Entry.is_fatal
         /\ frames[1].kind = "peek" =>
               /\ (ret'.body = "ok") = (ret'.kind = "some")
               /\ ret'.err = ret'.body_err
         /\ frames[1].kind = "not_check" =>
               (ret'.body = "err") = (ret'.kind = "some")]_vars
\* a step in which rt::attempt_recover returns
RecoverEnds ==
    /\ mode = "rt" /\ frames /= <<>> /\ frames' = Tail(frames)
    /\ frames[1].kind = "attempt_recover"

\* C12: rt::attempt_recover never returns an error; when its body fails,
\* with or without the fatal flag raised, it returns Ok(None), the caller's
\* position is the one at the call, scopes, rule stack and last span are those
\* at the call, and the fatal flag has the value it had at the call.
C12_RecoverSwallows ==
    [][RecoverEnds =>
         /\ ret'.kind /= "err"
         /\ ctx'.is_fatal = Entry.is_fatal
         /\ ret'.body = "err" =>
               /\ ret'.kind = "none"
               /\ cur' = EntryPos
               /\ ctx'.scopes = Entry.scopes
               /\ ctx'.rule_stack = Entry.rule_stack
               /\ ctx'.last_span = Entry.last_span]_vars

\* C12 happens: an attempt_recover whose body failed with the fatal flag
\* raised has returned Ok(None) with the flag down
C12_Witness ==
    /\ mode = "rt" /\ frames = <<>> /\ ret.fn = "attempt_recover"
    /\ ret.body = "err" /\ ret.body_fatal /\ ret.kind = "none"
    /\ ~ctx.is_fatal
\* C13: while a speculative call is in progress (so before the public entry
\* point returns), a best-error record that holds an error still holds one
\* after every step, and a deep one is not replaced by a shallow one.
C13_BestErrorKept ==
    [][(mode = "rt" /\ frames /= <<>> /\ ctx.best_error /= None) =>
         /\ ctx'.best_error /= None
         /\ ctx.best_error[1].is_deep => ctx'.best_error[1].is_deep]_vars
\* C14: as long as take_best_error is not called, the best-error record is
\* the first error given to record_error that it classified deep (position
\* different from the start position) if there was one, and otherwise the
\* first error given to it, stored as shallow; it is empty when none was given.
C14_FirstDeepWins ==
    mode = "rt" =>
        ctx.best_error =
            IF offered.deep /= None
            THEN Some([err |-> offered.deep[1], is_deep |-> TRUE])
            ELSE IF offered.first /= None
                 THEN Some([err |-> offered.first[1], is_deep |-> FALSE])
                 ELSE None

\* C14 happens: a shallow error was recorded first, a deep one replaced it and
\* a different deep one given later did not replace that
C14_Witness ==
    /\ mode = "rt"
    /\ offered.first /= None /\ offered.deep /= None /\ offered.last /= None
    /\ offered.first /= offered.deep
    /\ offered.last[1].is_deep /\ offered.last[1].err /= offered.deep[1]
    /\ ctx.best_error /= None /\ ctx.best_error[1].err = offered.deep[1]
\* C15: whenever an error enters the best-error record, its message is the
\* message of the error given, prefixed with "Error in rule '<name>': " for
\* the name on top of the rule stack at that moment, and the message alone when
\* the stack is empty; for an error recorded by attempt, that is the rule
\* stack the body left, not the one attempt restores.
C15_RuleNamePrefix ==
    [][(mode = "rt" /\ ctx'.best_error /= None /\ ctx'.best_error /= ctx.best_error) =>
         ctx'.best_error[1].err.msg =
             IF ctx.rule_stack = <<>>
             THEN <<"expected", "t">>
             ELSE <<"Error in rule", ctx.rule_stack[Len(ctx.rule_stack)], "expected", "t">>]_vars

\* C15 happens: an attempt entered inside rule r has recorded the failure of
\* its body under the rule s the body was in, and has restored the rule stack
C15_Witness ==
    /\ mode = "rt" /\ frames = <<>> /\ ret.fn = "attempt" /\ ret.kind = "none"
    /\ ctx.rule_stack = <<"r">>
    /\ ctx.best_error /= None
    /\ ctx.best_error[1].err.msg = <<"Error in rule", "s", "expected", "t">>
\* the main rule is a single repetition (Plus or Repeat) whose collected
\* values the action returns, and the repeated pattern
IsLoopRule(k) ==
    /\ backend = "syn" /\ Len(MainRule.variants) = 1
    /\ Len(MainRule.variants[1].pattern) = 1
    /\ MainRule.variants[1].pattern[1].k = k
    /\ MainRule.variants[1].action = First
LoopInner == MainRule.variants[1].pattern[1].inner
InnerAlone(p) == generate_pattern_step(G, LoopInner, Stream, p, FreshCtx)

\* the values of the inner pattern matched again and again from p, until it
\* fails, and the position then
RECURSIVE Collected(_)
CollectedNext(r) == IF r.ok /\ ~r.hang THEN <<r.val[1]>> \o Collected(r.pos) ELSE <<>>
Collected(p) == CollectedNext(InnerAlone(p))
RECURSIVE CollectedEnd(_)
CollectedEndNext(p, r) == IF r.ok /\ ~r.hang THEN CollectedEnd(r.pos) ELSE p
CollectedEnd(p) == CollectedEndNext(p, InnerAlone(p))

\* C16: a Plus fails when its inner pattern does not match at the position it
\* starts at; when it succeeds it has collected at least one value, the values
\* of the successive matches of its inner pattern in input order, and stands
\* after the last of them.
C16_PlusAtLeastOne ==
    (Done /\ IsLoopRule("Plus")) =>
        /\ ~InnerAlone(0).ok => out.status = "err"
        /\ out.status = "ok" =>
              /\ Len(out.val) >= 1
              /\ out.val = Collected(0)
              /\ pos = CollectedEnd(0)

\* C16 happens: a Plus failed on an input its inner pattern does not match,
\* a Plus returned one value, a Plus returned two values in input order
C16_WitnessNone ==
    Done /\ IsLoopRule("Plus") /\ inp = <<"1">> /\ out.status = "err"
C16_WitnessOne ==
    Done /\ IsLoopRule("Plus") /\ inp = <<"a", "1">> /\ out.status = "ok" /\ out.val = <<"a">>
C16_Witness ==
    Done /\ IsLoopRule("Plus") /\ inp = <<"b", "a", "1">>
         /\ out.status = "ok" /\ out.val = <<"b", "a">> /\ pos = 2
\* the iteration at which the matches of the inner pattern end
FailingIteration == InnerAlone(CollectedEnd(0))

\* C17: a Repeat none of whose iterations fails with the fatal flag raised
\* succeeds; the values it yields are values of the successive matches of
\* its inner pattern, in order, and it yields the empty sequence and does not
\* move when the inner pattern does not match at all.
C17_RepeatSucceeds ==
    (Done /\ IsLoopRule("Repeat") /\ ~FailingIteration.hang /\ ~FailingIteration.ctx.is_fatal) =>
        /\ out.status = "ok"
        /\ Len(out.val) <= Len(Collected(0))
        /\ out.val = SubSeq(Collected(0), 1, Len(out.val))
        /\ Collected(0) = <<>> => (out.val = <<>> /\ pos = 0)
(***************************************************************************)
(* The grammar macro: validation of the grammar model, then synthesis of   *)
(* one parser routine per rule.  An error of the macro names the rule it   *)
(* is reported at and carries the pieces of its message.                   *)
(***************************************************************************)
CompileError(at, msg) == [at |-> at, msg |-> msg]

\* tests/ui/recursion.rs
IndirectRec ==
    [rules |-> << Rule("a", << RuleVariant(<<RuleCall(None, "b")>>, Const(0)) >>),
                  Rule("b", << RuleVariant(<<RuleCall(None, "a")>>, Const(0)) >>) >>,
     inherits |-> None, main |-> "a", alphabet |-> {}, backends |-> {"syn", "winnow"}]

\* rule a = b "x" -> 1 | "y" -> 2   rule b = a "z" -> 3 | "w" -> 4
indirect_with_base ==
    [rules |-> << Rule("a", << RuleVariant(<<RuleCall(None, "b"), Lit("x")>>, Const(1)),
                               RuleVariant(<<Lit("y")>>, Const(2)) >>),
                  Rule("b", << RuleVariant(<<RuleCall(None, "a"), Lit("z")>>, Const(3)),
                               RuleVariant(<<Lit("w")>>, Const(4)) >>) >>,
     inherits |-> None, main |-> "a", alphabet |-> {}, backends |-> {"syn", "winnow"}]

\* rule other = "y" -> 1   rule main = main "x" -> 2   rule last = "z" -> 3
no_base ==
    [rules |-> << Rule("other", << RuleVariant(<<Lit("y")>>, Const(1)) >>),
                  Rule("main", << RuleVariant(<<RuleCall(None, "main"), Lit("x")>>, Const(2)) >>),
                  Rule("last", << RuleVariant(<<Lit("z")>>, Const(3)) >>) >>,
     inherits |-> None, main |-> "main", alphabet |-> {}, backends |-> {"syn", "winnow"}]

\* rule main = e:undefined_rule -> e
undefined_call ==
    [rules |-> << Rule("main", << RuleVariant(<<RuleCall(Some("e"), "missing")>>, First) >>) >>,
     inherits |-> None, main |-> "main", alphabet |-> {}, backends |-> {"syn", "winnow"}]

\* rule main = "a" -> 1   rule main = "b" -> 2
duplicate_rule ==
    [rules |-> << Rule("main", << RuleVariant(<<Lit("a")>>, Const(1)) >>),
                  Rule("main", << RuleVariant(<<Lit("b")>>, Const(2)) >>) >>,
     inherits |-> None, main |-> "main", alphabet |-> {}, backends |-> {"syn", "winnow"}]

\* syn-grammar1-bug-patch.rs, test_shadowing_identical
test_shadowing_identical ==
    [rules |-> << Rule("main", << RuleVariant(<<Lit("a")>>, Const(0)),
                                  RuleVariant(<<Lit("a")>>, Const(0)) >>) >>,
     inherits |-> None, main |-> "main", alphabet |-> {}, backends |-> {"syn", "winnow"}]

\* syn-grammar1-bug-patch.rs, test_shadowing_prefix
test_shadowing_prefix ==
    [rules |-> << Rule("main", << RuleVariant(<<Lit("a")>>, Const(0)),
                                  RuleVariant(<<Lit("a"), Lit("b")>>, Const(0)) >>) >>,
     inherits |-> None, main |-> "main", alphabet |-> {}, backends |-> {"syn", "winnow"}]

\* syn-grammar1-bug-patch.rs, test_no_shadowing
test_no_shadowing ==
    [rules |-> << Rule("main", << RuleVariant(<<Lit("a"), Lit("b")>>, Const(0)),
                                  RuleVariant(<<Lit("a")>>, Const(0)) >>) >>,
     inherits |-> None, main |-> "main", alphabet |-> {}, backends |-> {"syn", "winnow"}]

\* validator.rs, test_rule_args_mismatch
test_rule_args_mismatch ==
    [rules |-> << Rule("main", << RuleVariant(<<RuleCallArgs(None, "sub", <<Lit("1")>>)>>, Const(0)) >>),
                  Rule("sub", << RuleVariant(<<Lit("hello")>>, Const(0)) >>) >>,
     inherits |-> None, main |-> "main", alphabet |-> {}, backends |-> {"syn", "winnow"}]

\* validator.rs, test_builtin_args
test_builtin_args ==
    [rules |-> << Rule("main", << RuleVariant(<<RuleCallArgs(None, "ident", <<Lit("1")>>)>>, Const(0)) >>) >>,
     inherits |-> None, main |-> "main", alphabet |-> {}, backends |-> {"syn", "winnow"}]

\* syn-grammar1-bug.test.rs, test_bug_typed_param
test_bug_typed_param ==
    [rules |-> << RuleParams("list", <<"item">>, << RuleVariant(<<RuleCall(None, "item")>>, Const(0)) >>) >>,
     inherits |-> None, main |-> "list", alphabet |-> {}, backends |-> {"syn", "winnow"}]

\* rule main = list(<args>) -> 0   rule list(item) = "x" -> 0
call_with_args(args) ==
    [rules |-> << Rule("main", << RuleVariant(<<RuleCallArgs(None, "list", args)>>, Const(0)) >>),
                  RuleParams("list", <<"item">>, << RuleVariant(<<Lit("x")>>, Const(0)) >>) >>,
     inherits |-> None, main |-> "main", alphabet |-> {}, backends |-> {"syn", "winnow"}]

\* the places of a pattern tree a rule call can be nested in
Nestings ==
    << "Group", "Parenthesized", "Optional", "Repeat", "Plus", "Peek", "Not", "SpanBinding",
       "RecoverBody", "RecoverSync" >>
Nested(where, call) ==
    CASE where = "Group" -> Group(<< <<Lit("a")>>, <<Lit("b"), call>> >>)
      [] where = "Parenthesized" -> Parenthesized(<<Lit("a"), call>>)
      [] where = "Optional" -> Optional(call)
      [] where = "Repeat" -> Repeat(call)
      [] where = "Plus" -> Plus(call)
      [] where = "Peek" -> Peek(call)
      [] where = "Not" -> Not(call)
      [] where = "SpanBinding" -> SpanBinding(call)
      [] where = "RecoverBody" -> Recover(None, call, Lit(";"))
      [] where = "RecoverSync" -> Recover(None, Lit("a"), call)

\* rule main = "m" <a call of sub with one argument, nested> -> 0
\* rule sub = "hello" -> 0
nested_rule_args(where, parent) ==
    [rules |-> << Rule("main", << RuleVariant(<<Lit("m"),
                                      Nested(where, RuleCallArgs(None, "sub", <<Lit("1")>>))>>,
                                      Const(0)) >>),
                  Rule("sub", << RuleVariant(<<Lit("hello")>>, Const(0)) >>) >>,
     inherits |-> parent, main |-> "main", alphabet |-> {}, backends |-> {"syn", "winnow"}]

\* rule main = "m" <a call of ident with one argument, nested> -> 0
nested_builtin_args(where, parent) ==
    [rules |-> << Rule("main", << RuleVariant(<<Lit("m"),
                                      Nested(where, RuleCallArgs(None, "ident", <<Lit("1")>>))>>,
                                      Const(0)) >>) >>,
     inherits |-> parent, main |-> "main", alphabet |-> {}, backends |-> {"syn", "winnow"}]

\* rule main = "m" <a call of missing, nested> -> 0
nested_undefined(where, parent) ==
    [rules |-> << Rule("main", << RuleVariant(<<Lit("m"),
                                      Nested(where, RuleCall(None, "missing"))>>, Const(0)) >>) >>,
     inherits |-> parent, main |-> "main", alphabet |-> {}, backends |-> {"syn", "winnow"}]

\* rule main = sub(1) -> 0 | missing -> 1   rule sub = "hello" -> 0
args_and_undefined ==
    [rules |-> << Rule("main", << RuleVariant(<<RuleCallArgs(None, "sub", <<Lit("1")>>)>>, Const(0)),
                                  RuleVariant(<<RuleCall(None, "missing")>>, Const(1)) >>),
                  Rule("sub", << RuleVariant(<<Lit("hello")>>, Const(0)) >>) >>,
     inherits |-> None, main |-> "main", alphabet |-> {}, backends |-> {"syn", "winnow"}]

\* rule main = sub(1) -> 0   rule sub = missing -> 0   rule sub = "hello" -> 1
duplicate_and_others(parent) ==
    [rules |-> << Rule("main", << RuleVariant(<<RuleCallArgs(None, "sub", <<Lit("1")>>)>>, Const(0)) >>),
                  Rule("sub", << RuleVariant(<<RuleCall(None, "missing")>>, Const(0)) >>),
                  Rule("sub", << RuleVariant(<<Lit("hello")>>, Const(1)) >>) >>,
     inherits |-> parent, main |-> "main", alphabet |-> {}, backends |-> {"syn", "winnow"}]

\* comprehensive_test.rs, test_inheritance: grammar derived : base, whose
\* rule main calls the rule num of the parent
test_inheritance ==
    [rules |-> << Rule("main", << RuleVariant(<<Lit("add"), RuleCall(Some("a"), "num"),
                                                RuleCall(Some("b"), "num")>>, First) >>) >>,
     inherits |-> Some("base"), main |-> "main", alphabet |-> {}, backends |-> {"syn", "winnow"}]

\* a child grammar with a call of a local rule and one of a built-in, each
\* with one argument too many, at the top of a variant
child_args(name) ==
    [rules |-> << Rule("main", << RuleVariant(<<RuleCall(None, "num"),
                                                RuleCallArgs(None, name, <<Lit("1")>>)>>, Const(0)) >>),
                  Rule("sub", << RuleVariant(<<Lit("hello")>>, Const(0)) >>) >>,
     inherits |-> Some("base"), main |-> "main", alphabet |-> {}, backends |-> {"syn", "winnow"}]

\* test_shadowing_prefix as a child grammar
child_shadowing ==
    [rules |-> << Rule("main", << RuleVariant(<<Lit("a")>>, Const(0)),
                                  RuleVariant(<<Lit("a"), Lit("b")>>, Const(0)) >>) >>,
     inherits |-> Some("base"), main |-> "main", alphabet |-> {}, backends |-> {"syn", "winnow"}]

\* the grammars the macro is given
Sources ==
    Grammars \o << IndirectRec, indirect_with_base, no_base, undefined_call, duplicate_rule,
                   test_shadowing_identical, test_shadowing_prefix, test_no_shadowing,
                   test_rule_args_mismatch, test_builtin_args, test_bug_typed_param,
                   args_and_undefined, duplicate_and_others(None),
                   duplicate_and_others(Some("base")), test_inheritance,
                   child_args("sub"), child_args("ident"), child_shadowing,
                   call_with_args(<<>>), call_with_args(<<Lit("1")>>),
                   call_with_args(<<Lit("1"), Lit("2")>>) >>
            \o [i \in 1..Len(Nestings) |-> nested_rule_args(Nestings[i], None)]
            \o [i \in 1..Len(Nestings) |-> nested_builtin_args(Nestings[i], None)]
            \o [i \in 1..Len(Nestings) |-> nested_undefined(Nestings[i], None)]
            \o [i \in 1..Len(Nestings) |-> nested_rule_args(Nestings[i], Some("base"))]
            \o [i \in 1..Len(Nestings) |-> nested_undefined(Nestings[i], Some("base"))]

\* validate: the first rule whose name an earlier rule has
DuplicateAt(rules) ==
    {i \in 1..Len(rules) : \E j \in 1..(i - 1) : rules[j].name = rules[i].name}

\* validate_pattern: the rule names a pattern calls, in the order validate_pattern visits them
RECURSIVE called_by_alts(_)
RECURSIVE called_by(_)
called_by(patterns) ==
    IF patterns = <<>> THEN <<>>
    ELSE LET p == patterns[1]
         IN  (CASE p.k = "RuleCall" -> <<p.rule_name>>
                [] p.k \in {"Repeat", "Plus", "Optional", "SpanBinding", "Peek", "Not"} ->
                       called_by(<<p.inner>>)
                [] p.k = "Group" -> called_by_alts(p.alts)
                [] p.k = "Parenthesized" -> called_by(p.seq)
                [] p.k = "Recover" -> called_by(<<p.body, p.sync>>)
                [] OTHER -> <<>>) \o called_by(Tail(patterns))
called_by_alts(alts) ==
    IF alts = <<>> THEN <<>> ELSE called_by(alts[1]) \o called_by_alts(Tail(alts))

\* validate_rule for every rule: the calls of rules that are not defined, in order
RECURSIVE variants_calls(_)
variants_calls(variants) ==
    IF variants = <<>> THEN <<>>
    ELSE called_by(variants[1].pattern) \o variants_calls(Tail(variants))
RECURSIVE vendor_undefined_calls(_, _)
vendor_undefined_calls(rules, all_defs) ==
    IF rules = <<>> THEN <<>>
    ELSE SelectSeq(variants_calls(rules[1].variants), LAMBDA n : n \notin all_defs)
         \o vendor_undefined_calls(Tail(rules), all_defs)

\* the same in syn-grammar1-bug-patch.rs: a call of a parameter of the rule is defined
RECURSIVE undefined_calls(_, _)
undefined_calls(rules, all_defs) ==
    IF rules = <<>> THEN <<>>
    ELSE SelectSeq(variants_calls(rules[1].variants),
                   LAMBDA n : n \notin all_defs /\ ~(\E i \in 1..Len(rules[1].params) :
                                                        rules[1].params[i] = n))
         \o undefined_calls(Tail(rules), all_defs)

\* the decimal numeral of a number of parameters or arguments
Decimal(n) == <<"0", "1", "2", "3">>[n + 1]

\* validate_argument_counts, one rule call: the error for its number of arguments, if any
args_error(p, rules, builtin_names) ==
    IF p.rule_name \in RuleNames(rules)
    THEN IF Len(RuleOf(rules, p.rule_name).params) /= Len(p.args)
         THEN <<CompileError(p.rule_name,
                    <<"Rule", p.rule_name, "expects",
                      Decimal(Len(RuleOf(rules, p.rule_name).params)),
                      "argument(s), but got", Decimal(Len(p.args))>>)>>
         ELSE <<>>
    ELSE IF p.rule_name \in builtin_names /\ p.args /= <<>>
         THEN <<CompileError(p.rule_name,
                    <<"Built-in rule", p.rule_name, "does not accept arguments.">>)>>
         ELSE <<>>

\* validate_argument_counts of validator.rs: the errors of the rule calls
\* that are elements of a variant's sequence, in order
RECURSIVE vendor_pattern_args(_, _, _)
vendor_pattern_args(patterns, rules, builtin_names) ==
    IF patterns = <<>> THEN <<>>
    ELSE (IF patterns[1].k = "RuleCall" THEN args_error(patterns[1], rules, builtin_names)
          ELSE <<>>) \o vendor_pattern_args(Tail(patterns), rules, builtin_names)

\* validate_args_recursive of syn-grammar1-bug-patch.rs: the errors of all
\* rule calls of the pattern trees, in the order it visits them
RECURSIVE validate_args_alts(_, _, _)
RECURSIVE validate_args_recursive(_, _, _)
validate_args_recursive(patterns, rules, builtin_names) ==
    IF patterns = <<>> THEN <<>>
    ELSE LET p == patterns[1]
         IN  (CASE p.k = "RuleCall" ->
                       args_error(p, rules, builtin_names)
                       \o validate_args_recursive(p.args, rules, builtin_names)
                [] p.k \in {"Repeat", "Plus", "Optional", "SpanBinding", "Peek", "Not"} ->
                       validate_args_recursive(<<p.inner>>, rules, builtin_names)
                [] p.k = "Group" -> validate_args_alts(p.alts, rules, builtin_names)
                [] p.k = "Parenthesized" -> validate_args_recursive(p.seq, rules, builtin_names)
                [] p.k = "Recover" ->
                       validate_args_recursive(<<p.body>>, rules, builtin_names)
                       \o validate_args_recursive(<<p.sync>>, rules, builtin_names)
                [] OTHER -> <<>>) \o validate_args_recursive(Tail(patterns), rules, builtin_names)
validate_args_alts(alts, rules, builtin_names) ==
    IF alts = <<>> THEN <<>>
    ELSE validate_args_recursive(alts[1], rules, builtin_names)
         \o validate_args_alts(Tail(alts), rules, builtin_names)

\* the patterns of all variants of all rules, one variant after the other
RECURSIVE variant_patterns(_)
variant_patterns(variants) ==
    IF variants = <<>> THEN <<>>
    ELSE <<variants[1].pattern>> \o variant_patterns(Tail(variants))
RECURSIVE all_patterns(_)
all_patterns(rules) ==
    IF rules = <<>> THEN <<>>
    ELSE variant_patterns(rules[1].variants) \o all_patterns(Tail(rules))

\* validate_argument_counts of validator.rs
RECURSIVE vendor_variants_args(_, _, _)
vendor_variants_args(seqs, rules, builtin_names) ==
    IF seqs = <<>> THEN <<>>
    ELSE vendor_pattern_args(seqs[1], rules, builtin_names)
         \o vendor_variants_args(Tail(seqs), rules, builtin_names)
vendor_validate_argument_counts(rules, builtin_names) ==
    vendor_variants_args(all_patterns(rules), rules, builtin_names)

\* validate_argument_counts of syn-grammar1-bug-patch.rs
validate_argument_counts(rules, builtin_names) ==
    validate_args_alts(all_patterns(rules), rules, builtin_names)

\* analyze_grammar, cycles: rule A has an edge to rule B when a variant of A
\* begins with a call of B; a cycle is a sequence of distinct rules each with
\* an edge to the next and the last with an edge to the first
first_calls(rules, name) ==
    {v.pattern[1].rule_name :
        v \in {RuleOf(rules, name).variants[i] : i \in
                  {i \in 1..Len(RuleOf(rules, name).variants) :
                      /\ RuleOf(rules, name).variants[i].pattern /= <<>>
                      /\ RuleOf(rules, name).variants[i].pattern[1].k = "RuleCall"}}}

analysis_cycles(rules) ==
    {c \in SeqsUpTo(RuleNames(rules), Len(rules)) :
        /\ c /= <<>>
        /\ \A i, j \in 1..Len(c) : i /= j => c[i] /= c[j]
        /\ \A i \in 1..Len(c) : c[(i % Len(c)) + 1] \in first_calls(rules, c[i])}

\* the decimal numeral of an alternative's number
Numeral(i) == <<"1", "2", "3", "4">>[i]

\* analyze_grammar, errors: for every rule and every pair of alternatives
\* i < j, "identical" when the sequences are equal and "shadows" when the
\* earlier one is a strict prefix of the later one
shadowing_error(rule, i, j) ==
    IF rule.variants[i].pattern = rule.variants[j].pattern
    THEN CompileError(rule.name, <<"Alternative", Numeral(i), "and", Numeral(j), "are identical">>)
    ELSE CompileError(rule.name, <<"Alternative", Numeral(i), "shadows Alternative", Numeral(j)>>)

RECURSIVE rule_errors(_, _, _)
rule_errors(rule, i, j) ==
    IF i >= Len(rule.variants) THEN <<>>
    ELSE IF j > Len(rule.variants) THEN rule_errors(rule, i + 1, i + 2)
    ELSE (IF shadows(rule.variants[i].pattern, rule.variants[j].pattern)
          THEN <<shadowing_error(rule, i, j)>> ELSE <<>>) \o rule_errors(rule, i, j + 1)

RECURSIVE analysis_errors(_)
analysis_errors(rules) ==
    IF rules = <<>> THEN <<>>
    ELSE rule_errors(rules[1], 1, 2) \o analysis_errors(Tail(rules))

\* validate, the cycle check: the errors it may return, one for each cycle
\* the analysis may have discovered first
cycle_error(c) ==
    CompileError(c[1], <<"Indirect left recursion detected (unsupported):">> \o c \o <<c[1]>>)

\* a cycle check that does not let direct left recursion through
all_cycle_errors(rules) == {<<cycle_error(c)>> : c \in analysis_cycles(rules)}

cycle_errors(rules) ==
    {<<cycle_error(c)>> : c \in {c \in analysis_cycles(rules) : Len(c) > 1}}

\* a shadowing check that looks at identical alternatives only
identical_errors(rules) ==
    SelectSeq(analysis_errors(rules), LAMBDA e : e.msg[3] = "and")

\* validate, the shadowing check: the errors it combines into the one it returns
combined_errors(rules) == analysis_errors(rules)

\* validate, the duplicate check: the error at the first rule whose name an
\* earlier rule has
duplicate_error(rules) ==
    <<CompileError(rules[CHOOSE i \in DuplicateAt(rules) : \A j \in DuplicateAt(rules) : i <= j].name,
                   <<"Duplicate rule definition:",
                     rules[CHOOSE i \in DuplicateAt(rules) : \A j \in DuplicateAt(rules) : i <= j].name>>)>>

\* a validator that checks the numbers of arguments before the undefined rules
args_first_error(grammar, undefined, args) ==
    IF DuplicateAt(grammar.rules) /= {} THEN duplicate_error(grammar.rules)
    ELSE IF args /= <<>> THEN <<args[1]>>
    ELSE IF grammar.inherits = None /\ undefined /= <<>>
    THEN <<CompileError(undefined[1], <<"Undefined rule:", undefined[1]>>)>>
    ELSE <<>>

\* validate, the first checks: duplicate rule definitions, then (without a
\* parent) calls of undefined rules, then the numbers of arguments; undefined
\* and args are the errors these two passes find, in order
first_error(grammar, undefined, args) ==
    IF DuplicateAt(grammar.rules) /= {} THEN duplicate_error(grammar.rules)
    ELSE IF grammar.inherits = None /\ undefined /= <<>>
    THEN <<CompileError(undefined[1], <<"Undefined rule:", undefined[1]>>)>>
    ELSE IF args /= <<>> THEN <<args[1]>>
    ELSE <<>>

\* validate of validator.rs: the errors it may return; none when the grammar is accepted
vendor_validate(grammar, builtins) ==
    {first_error(grammar,
                 vendor_undefined_calls(grammar.rules, RuleNames(grammar.rules) \cup builtins),
                 vendor_validate_argument_counts(grammar.rules, builtins))}

\* validate of syn-grammar1-bug-patch.rs: the errors it may return; none
\* when the grammar is accepted
validate(grammar, builtins) ==
    IF first_error(grammar,
                   undefined_calls(grammar.rules, RuleNames(grammar.rules) \cup builtins),
                   validate_argument_counts(grammar.rules, builtins)) /= <<>>
    THEN {first_error(grammar,
                      undefined_calls(grammar.rules, RuleNames(grammar.rules) \cup builtins),
                      validate_argument_counts(grammar.rules, builtins))}
    ELSE IF cycle_errors(grammar.rules) /= {}
    THEN cycle_errors(grammar.rules)
    ELSE IF grammar.inherits = None THEN {combined_errors(grammar.rules)}
    ELSE {<<>>}

\* a generator that lets a rule without base variant through
generate_any_rule(rule) == <<>>

\* generate_rule of the syn generator: the error it returns, if any
generate_rule(rule) ==
    IF /\ split_left_recursive(rule.name, rule.variants).recursive /= <<>>
       /\ split_left_recursive(rule.name, rule.variants).base = <<>>
    THEN <<CompileError(rule.name,
               <<"Left-recursive rule requires at least one non-recursive base variant.">>)>>
    ELSE <<>>

\* Codegen::generate_rule of the winnow generator: the compile_error! the
\* body of the routine is, if any
w_generate_rule(rule) ==
    IF /\ split_left_recursive(rule.name, rule.variants).recursive /= <<>>
       /\ split_left_recursive(rule.name, rule.variants).base = <<>>
    THEN <<CompileError(rule.name,
               <<"Left-recursive rule requires at least one non-recursive base variant.">>)>>
    ELSE <<>>

(***************************************************************************)
(* The compile specification: the macro is given one of the grammars, then *)
(* validates it and synthesizes its rules one after the other.  gen.stage  *)
(* is "source", then "validated" or "rejected", then "generated" or        *)
(* "failed"; gen.errors are the compile errors so far; gen.routines the    *)
(* rules for which the output of the macro holds a parser routine.         *)
(***************************************************************************)
Src == Sources[gid].rules

\* the two validators of the repository
Validators == {"validator.rs", "syn-grammar1-bug-patch.rs"}

InitGen ==
    /\ mode = "gen"
    /\ gid \in 1..Len(Sources)
    /\ backend \in Sources[gid].backends
    /\ \E validator \in Validators :
           gen = [validator |-> validator, stage |-> "source", next |-> 1, errors |-> <<>>,
                  routines |-> {}]
    /\ inp = <<>>
    /\ pc = "gen"
    /\ pos = 0
    /\ ctx = ParseContext_new
    /\ lhs = 0
    /\ iters = 0
    /\ out = NoOut
    /\ frames = <<>>
    /\ cur = 0
    /\ ret = NoRet
    /\ ops = 0
    /\ offered = NoOffer

GenStep == UNCHANGED <<mode, backend, gid, inp, pc, pos, ctx, lhs, iters, out, frames, cur,
                       ret, ops, offered>>

\* parse_grammar: validate
GenValidate ==
    /\ mode = "gen" /\ gen.stage = "source"
    /\ \E errors \in (IF gen.validator = "validator.rs"
                        THEN vendor_validate(Sources[gid], Builtins)
                        ELSE validate(Sources[gid], Builtins)) :
         gen' = [gen EXCEPT !.stage = IF errors = <<>> THEN "validated" ELSE "rejected",
                            !.errors = errors]
    /\ GenStep

\* generate_rust of the syn generator, one rule: the first error ends the
\* synthesis and the macro emits the error alone
GenRule ==
    /\ mode = "gen" /\ backend = "syn" /\ gen.stage = "validated"
    /\ gen.next <= Len(Src)
    /\ gen' = IF generate_rule(Src[gen.next]) /= <<>>
              THEN [gen EXCEPT !.stage = "failed", !.errors = generate_rule(Src[gen.next]),
                               !.routines = {}]
              ELSE [gen EXCEPT !.next = @ + 1, !.routines = @ \cup {Src[gen.next].name}]
    /\ GenStep

\* Codegen::generate of the winnow generator, one rule: a routine whose body
\* is a compile_error! is no parser routine, the other rules follow
WinGenRule ==
    /\ mode = "gen" /\ backend = "winnow" /\ gen.stage = "validated"
    /\ gen.next <= Len(Src)
    /\ gen' = IF w_generate_rule(Src[gen.next]) /= <<>>
              THEN [gen EXCEPT !.next = @ + 1,
                               !.errors = @ \o w_generate_rule(Src[gen.next])]
              ELSE [gen EXCEPT !.next = @ + 1, !.routines = @ \cup {Src[gen.next].name}]
    /\ GenStep

\* the macro returns its output to the compiler
GenFinish ==
    /\ mode = "gen" /\ gen.stage = "validated"
    /\ gen.next > Len(Src)
    /\ gen' = [gen EXCEPT !.stage = IF gen.errors = <<>> THEN "generated" ELSE "failed"]
    /\ GenStep

NextGen ==
    \/ GenValidate
    \/ GenRule
    \/ WinGenRule
    \/ GenFinish

SpecGen == InitGen /\ [][NextGen]_vars
\* rule k of the grammar is left-recursive without a base variant, and the
\* macro has synthesized it
NoBase(k) ==
    /\ split_left_recursive(Src[k].name, Src[k].variants).recursive /= <<>>
    /\ split_left_recursive(Src[k].name, Src[k].variants).base = <<>>
Synthesized(k) ==
    /\ gen.stage \in {"validated", "generated", "failed"}
    /\ k < gen.next \/ (gen.stage = "failed" /\ k = gen.next)
HasError(e) == \E i \in 1..Len(gen.errors) : gen.errors[i] = e

\* C18: once the macro has synthesized a rule with a variant that begins
\* with a call of the rule itself and without base variant, its output holds
\* the compile error "Left-recursive rule requires at least one non-recursive
\* base variant." for that rule and no parser routine for it, and the macro
\* does not end with a generated parser.
C18_NoBaseIsError ==
    mode = "gen" =>
        \A k \in 1..Len(Src) :
            (NoBase(k) /\ Synthesized(k)) =>
                /\ HasError(CompileError(Src[k].name,
                       <<"Left-recursive rule requires at least one non-recursive base variant.">>))
                /\ Src[k].name \notin gen.routines
                /\ gen.stage /= "generated"

\* C18 happens: the syn generator has failed on the rule main of no_base
C18_Witness ==
    /\ mode = "gen" /\ Sources[gid] = no_base /\ backend = "syn"
    /\ gen.stage = "failed" /\ gen.routines = {}
    /\ gen.errors = <<CompileError("main",
           <<"Left-recursive rule requires at least one non-recursive base variant.">>)>>
\* the cycles through two or more rules of the graph "some variant's first
\* pattern is a call to"
IndirectCycles == {c \in analysis_cycles(Src) : Len(c) > 1}
Validated ==
    mode = "gen" /\ gen.validator = "syn-grammar1-bug-patch.rs" /\ gen.stage /= "source"
PassesEarlierChecks ==
    /\ DuplicateAt(Src) = {}
    /\ Sources[gid].inherits = None => undefined_calls(Src, RuleNames(Src) \cup Builtins) = <<>>
    /\ validate_argument_counts(Src, Builtins) = <<>>

C19_WitnessDirect ==
    /\ mode = "gen" /\ Sources[gid] = left_rec /\ gen.stage = "validated"
\* alternative i of rule r is identical to the later alternative j, or a
\* strict prefix of it
Alt(r, i) == Src[r].variants[i].pattern
Pairs(r) == {ij \in (1..Len(Src[r].variants)) \X (1..Len(Src[r].variants)) : ij[1] < ij[2]}
Identical(r, i, j) == Alt(r, i) = Alt(r, j)
StrictPrefix(r, i, j) ==
    Len(Alt(r, i)) < Len(Alt(r, j)) /\ SubSeq(Alt(r, j), 1, Len(Alt(r, i))) = Alt(r, i)

\* C20: for a grammar the earlier checks of validation let through,
\* validation rejects it when a rule has an alternative identical to a later
\* one, with "Alternative i and j are identical", or a strict prefix of a
\* later one, with "Alternative i shadows Alternative j"; it accepts the
\* grammar when no rule has such a pair, as when the longer alternative comes
\* before its prefix.
C20_ShadowingRejected ==
    (Validated /\ PassesEarlierChecks /\ IndirectCycles = {}) =>
        /\ \A r \in 1..Len(Src) : \A ij \in Pairs(r) :
              /\ Identical(r, ij[1], ij[2]) =>
                    /\ gen.stage = "rejected"
                    /\ HasError(CompileError(Src[r].name,
                           <<"Alternative", Numeral(ij[1]), "and", Numeral(ij[2]), "are identical">>))
              /\ StrictPrefix(r, ij[1], ij[2]) =>
                    /\ gen.stage = "rejected"
                    /\ HasError(CompileError(Src[r].name,
                           <<"Alternative", Numeral(ij[1]), "shadows Alternative", Numeral(ij[2])>>))
        /\ (\A r \in 1..Len(Src) : \A ij \in Pairs(r) :
                ~Identical(r, ij[1], ij[2]) /\ ~StrictPrefix(r, ij[1], ij[2]))
              => gen.stage /= "rejected"

\* C20 happens: `"a"` before `"a" "b"` is rejected
C20_Witness ==
    /\ mode = "gen" /\ Sources[gid] = test_shadowing_prefix
    /\ gen.stage = "rejected"
    /\ gen.errors = <<CompileError("main", <<"Alternative", "1", "shadows Alternative", "2">>)>>

\* C20 happens: `"a" "b"` before `"a"` is accepted
C20_WitnessAccepted ==
    /\ mode = "gen" /\ Sources[gid] = test_no_shadowing /\ gen.stage = "validated"

\* the rule calls anywhere in the pattern trees of the grammar
RECURSIVE CallsIn(_)
CallsIn(p) ==
    CASE p.k = "RuleCall" -> {p} \cup UNION {CallsIn(p.args[i]) : i \in 1..Len(p.args)}
      [] p.k \in {"Repeat", "Plus", "Optional", "SpanBinding", "Peek", "Not"} -> CallsIn(p.inner)
      [] p.k = "Group" ->
             UNION {UNION {CallsIn(p.alts[a][i]) : i \in 1..Len(p.alts[a])} :
                       a \in 1..Len(p.alts)}
      [] p.k = "Parenthesized" -> UNION {CallsIn(p.seq[i]) : i \in 1..Len(p.seq)}
      [] p.k = "Recover" -> CallsIn(p.body) \cup CallsIn(p.sync)
      [] OTHER -> {}
AllCalls ==
    UNION {UNION {UNION {CallsIn(Src[r].variants[v].pattern[i]) :
                            i \in 1..Len(Src[r].variants[v].pattern)} :
                     v \in 1..Len(Src[r].variants)} :
              r \in 1..Len(Src)}

\* the call passes a number of arguments different from the number of
\* parameters of the local rule it names, or an argument to a built-in
WrongArgs(call) ==
    \/ \E r \in 1..Len(Src) :
           Src[r].name = call.rule_name /\ Len(Src[r].params) /= Len(call.args)
    \/ /\ call.rule_name \notin RuleNames(Src)
       /\ call.rule_name \in Builtins /\ call.args /= <<>>
ArgsMessage(call) ==
    IF call.rule_name \in RuleNames(Src)
    THEN <<"Rule", call.rule_name, "expects", Decimal(Len(RuleOf(Src, call.rule_name).params)),
           "argument(s), but got", Decimal(Len(call.args))>>
    ELSE <<"Built-in rule", call.rule_name, "does not accept arguments.">>
Checked == mode = "gen" /\ gen.stage /= "source"
NoUndefined == \A call \in AllCalls : call.rule_name \in RuleNames(Src) \cup Builtins

\* C21: once a grammar is validated, if a rule call anywhere in its pattern
\* trees has the wrong number of arguments, the grammar is rejected; and when
\* it has no duplicate rule and no call of an undefined name, the error is
\* the argument error of such a call, at the call.
C21_ArgsChecked ==
    (Checked /\ \E call \in AllCalls : WrongArgs(call)) =>
        /\ gen.stage = "rejected"
        /\ (DuplicateAt(Src) = {} /\ NoUndefined) =>
              \E call \in AllCalls :
                  /\ WrongArgs(call)
                  /\ gen.errors = <<CompileError(call.rule_name, ArgsMessage(call))>>

\* the same for the validator of syn-grammar1-bug-patch.rs alone
C21_PatchArgsChecked ==
    gen.validator = "syn-grammar1-bug-patch.rs" => C21_ArgsChecked

\* the rule calls anywhere in rule r, and those of them the validator in use
\* takes for undefined: the name is no local rule and no built-in, and for
\* the validator of syn-grammar1-bug-patch.rs no parameter of the rule
CallsOf(r) ==
    UNION {UNION {CallsIn(Src[r].variants[v].pattern[i]) :
                     i \in 1..Len(Src[r].variants[v].pattern)} :
              v \in 1..Len(Src[r].variants)}
UndefinedNames ==
    UNION {{call.rule_name : call \in
               {call \in CallsOf(r) :
                   /\ call.rule_name \notin RuleNames(Src) \cup Builtins
                   /\ ~(/\ gen.validator = "syn-grammar1-bug-patch.rs"
                        /\ \E i \in 1..Len(Src[r].params) : Src[r].params[i] = call.rule_name)}} :
              r \in 1..Len(Src)}
SecondDefinition ==
    CHOOSE i \in DuplicateAt(Src) : \A j \in DuplicateAt(Src) : i <= j
IsArgsError(e) == e.msg[1] \in {"Rule", "Built-in rule"}
IsUndefinedError(e) == e.msg[1] = "Undefined rule:"

\* C22 as stated: validation returns the first error in the order duplicate
\* rule name, then argument-count mismatch, then undefined rule reference: a
\* grammar without duplicate in which the validator finds a call with the
\* wrong number of arguments is reported as an argument-count mismatch, also
\* when it calls an undefined rule.
C22_ArgsBeforeUndefined ==
    Checked =>
        /\ DuplicateAt(Src) /= {} =>
              gen.errors = <<CompileError(Src[SecondDefinition].name,
                                <<"Duplicate rule definition:", Src[SecondDefinition].name>>)>>
        /\ (DuplicateAt(Src) = {} /\ vendor_validate_argument_counts(Src, Builtins) /= <<>>) =>
              (gen.errors /= <<>> /\ IsArgsError(gen.errors[1]))

\* C22, amended: validation returns the first error in the order duplicate
\* rule name (at the second definition), then undefined rule reference (for
\* a grammar without parent), then argument-count mismatch: a grammar
\* without duplicate and without parent that calls an undefined rule is
\* reported as "Undefined rule", also when a call has the wrong number of
\* arguments, and an argument-count mismatch is only reported for a grammar
\* without duplicate and without reportable undefined rule.
C22_UndefinedBeforeArgs ==
    Checked =>
        /\ DuplicateAt(Src) /= {} =>
              gen.errors = <<CompileError(Src[SecondDefinition].name,
                                <<"Duplicate rule definition:", Src[SecondDefinition].name>>)>>
        /\ (DuplicateAt(Src) = {} /\ Sources[gid].inherits = None /\ UndefinedNames /= {}) =>
              \E name \in UndefinedNames :
                  gen.errors = <<CompileError(name, <<"Undefined rule:", name>>)>>
        /\ (gen.errors /= <<>> /\ IsArgsError(gen.errors[1])) =>
              /\ DuplicateAt(Src) = {}
              /\ Sources[gid].inherits = None => UndefinedNames = {}
              /\ \E call \in AllCalls : WrongArgs(call)

\* C22 happens: a grammar with a call sub(1) of a rule without parameters
\* followed by a call of an undefined rule is reported as undefined rule
C22_Witness ==
    /\ mode = "gen" /\ Sources[gid] = args_and_undefined
    /\ gen.stage = "rejected"
    /\ gen.errors = <<CompileError("missing", <<"Undefined rule:", "missing">>)>>

\* C22 happens: a grammar with a duplicate rule, a call with a wrong number
\* of arguments and a call of an undefined rule is reported as duplicate
C22_WitnessDuplicate ==
    /\ mode = "gen" /\ Sources[gid] = duplicate_and_others(None)
    /\ gen.errors = <<CompileError("sub", <<"Duplicate rule definition:", "sub">>)>>

\* C23: with validate of validator.rs, for a grammar that declares a parent
\* validation never reports an undefined rule, but reports a duplicate rule
\* definition and, without duplicate, the wrong number of arguments of a
\* call of a local rule or of a built-in; for a grammar without parent (and
\* without duplicate) that calls a name that is neither a local rule nor a
\* built-in, it reports "Undefined rule" for such a name.
C23_ParentSkipsUndefined ==
    (Checked /\ gen.validator = "validator.rs") =>
        /\ Sources[gid].inherits /= None =>
              /\ \A i \in 1..Len(gen.errors) : ~IsUndefinedError(gen.errors[i])
              /\ DuplicateAt(Src) /= {} =>
                    gen.errors = <<CompileError(Src[SecondDefinition].name,
                                      <<"Duplicate rule definition:", Src[SecondDefinition].name>>)>>
              /\ (DuplicateAt(Src) = {} /\ \E call \in AllCalls : WrongArgs(call)) =>
                    \E call \in AllCalls :
                        /\ WrongArgs(call)
                        /\ gen.errors = <<CompileError(call.rule_name, ArgsMessage(call))>>
        /\ (Sources[gid].inherits = None /\ DuplicateAt(Src) = {} /\ ~NoUndefined) =>
              \E call \in AllCalls :
                  /\ call.rule_name \notin RuleNames(Src) \cup Builtins
                  /\ gen.errors = <<CompileError(call.rule_name,
                                        <<"Undefined rule:", call.rule_name>>)>>

\* the same for the calls validate_argument_counts of validator.rs looks at,
\* the elements of a variant's sequence, and for that validator
C23_ParentSkipsUndefinedFlat ==
    validate_argument_counts(Src, Builtins) = vendor_validate_argument_counts(Src, Builtins)
    => C23_ParentSkipsUndefined

\* the parser in which every peek guard in front of a speculative attempt is
\* replaced by the plain attempt, run on the input from a fresh context
PlainContext == [ParseContext_new EXCEPT !.peek_guards = FALSE]
PlainParse ==
    parse_rule_result(parse_rule_impl(G, MainName, syn_stream(inp), 0, PlainContext))

\* C24: the parser with peek guards accepts the same inputs as the parser
\* with plain attempts, and when they accept, they stop at the same position
\* with the same value.
C24_GuardsPure ==
    (Done /\ backend = "syn") =>
        /\ out.status = Outcome(PlainParse).status
        /\ out.status = "ok" => (out.val = PlainParse.val /\ pos = PlainParse.pos)

\* parse_<rule>_impl of the main rule on the input, before the public entry
\* point looks at its result
Impl == parse_rule_impl(G, MainName, syn_stream(inp), 0, ParseContext_new)

\* the parse is aborted by the failure behind the cut of alternative i of the
\* main rule: the patterns before the cut match at the start of the input,
\* the patterns after it fail, and parse_<rule>_impl returns with the fatal
\* flag raised and the error of that failure
PostCutError(i) ==
    generate_sequence_steps(G, find_cut(Run(i))[1].post_cut, syn_stream(inp),
                            SeqEnd(find_cut(Run(i))[1].pre_cut, 0), FreshCtx).err
PostCutAbort(i) ==
    /\ ~IsTail(i)
    /\ find_cut(Run(i)) /= None
    /\ SeqOk(find_cut(Run(i))[1].pre_cut, 0)
    /\ ~SeqOk(find_cut(Run(i))[1].post_cut, SeqEnd(find_cut(Run(i))[1].pre_cut, 0))
    /\ ~Impl.ok /\ ~Impl.hang /\ Impl.ctx.is_fatal
    /\ Impl.err = PostCutError(i)

\* C25: when a parse is aborted by the failure behind a cut, the public
\* entry point returns the error of that failure, whatever was recorded as
\* best error before.
C25_FatalErrorReturned ==
    (Done /\ backend = "syn") =>
        \A i \in Alts : PostCutAbort(i) => (out.status = "err" /\ out.err = PostCutError(i))

\* the patterns of the grammar, nested ones included
RECURSIVE PatternsIn(_)
PatternsIn(p) ==
    {p} \cup
    CASE p.k \in {"Repeat", "Plus", "Optional", "SpanBinding", "Peek", "Not"} -> PatternsIn(p.inner)
      [] p.k = "Group" ->
             UNION {UNION {PatternsIn(p.alts[a][i]) : i \in 1..Len(p.alts[a])} :
                       a \in 1..Len(p.alts)}
      [] p.k = "Parenthesized" -> UNION {PatternsIn(p.seq[i]) : i \in 1..Len(p.seq)}
      [] p.k = "Recover" -> PatternsIn(p.body) \cup PatternsIn(p.sync)
      [] OTHER -> {}
AllPatterns ==
    UNION {UNION {UNION {PatternsIn(G[r].variants[v].pattern[i]) :
                            i \in 1..Len(G[r].variants[v].pattern)} :
                     v \in 1..Len(G[r].variants)} :
              r \in 1..Len(G)}

\* a match r of a pattern that began at position q has consumed a token
Consumes(q, r) == r.ok => r.pos > q

\* C26: for every pattern of the grammar that is_nullable classifies as not
\* nullable, no match at any position of the input leaves the position
\* unchanged; literals and delimited regions are classified not nullable and
\* rule calls nullable.
C26_NullableSound ==
    (mode = "parse" /\ backend = "syn" /\ pc = "ready") =>
        \A p \in AllPatterns :
            /\ p.k \in {"Lit", "Parenthesized"} => ~is_nullable(p)
            /\ p.k = "RuleCall" => is_nullable(p)
            /\ ~is_nullable(p) =>
                  \A q \in 0..Len(inp) :
                      Consumes(q, generate_pattern_step(G, p, syn_stream(inp), q, FreshCtx))

\* C26 happens: the parser has matched a repetition of a group, both not
\* nullable, whose last iteration is a delimited region with empty content
C26_Witness ==
    /\ Done /\ Grammars[gid] = delimited /\ inp = <<"a", "(", ")">>
    /\ out.status = "ok" /\ pos = 3
    /\ \E p \in AllPatterns : p.k = "Plus" /\ ~is_nullable(p)

\* a routine that returned to its caller with r does so with the flag clear
\* unless r is an error
FlagClear(r) == (r.ok /\ ~r.hang) => ~check_fatal(r.ctx)
\* r is a failure that propagates with the fatal flag raised
FatalFailure(r) == ~r.ok /\ ~r.hang /\ check_fatal(r.ctx)

\* attempt, attempt_recover, peek and not_check, entered at position q with
\* the flag clear around a parser whose result is r, return with it clear
WrappersClear(q, r) ==
    /\ FlagClear(r)
    /\ FlagClear(attempt_done(attempt_enter(FreshCtx, q), q, r))
    /\ FlagClear(attempt_recover_done(attempt_recover_enter(FreshCtx, q), q, r))
    /\ FlagClear(peek_done(peek_enter(FreshCtx, q), q, r))
    /\ FlagClear(not_check_done(not_check_enter(FreshCtx, q), q, r))

\* C27: in a parse from the public entry point the fatal flag is raised only
\* while an error propagates: every pattern of the grammar (a call of a rule
\* routine is one), and attempt, attempt_recover, peek and not_check around
\* every pattern, entered on any input with the flag clear, return success
\* or "no match" with the flag clear; and the routine of the entry rule, when
\* the parse succeeds, returns with it clear.  (The routines read forward
\* only: a pattern entered further into an input runs as on the rest of it,
\* which is one of the inputs.)
C27_FatalOnlyWithError ==
    /\ (Done /\ backend = "syn" /\ out.status = "ok") => ~check_fatal(ctx)
    /\ (mode = "parse" /\ backend = "syn" /\ pc = "loop") => ~check_fatal(ctx)
    /\ (mode = "parse" /\ backend = "syn" /\ pc = "ready") =>
          \A p \in AllPatterns :
              WrappersClear(0, generate_pattern_step(G, p, syn_stream(inp), 0, FreshCtx))

\* C27 happens: a parse succeeded although a pattern of its grammar fails
\* fatally at some position of the input, where attempt_recover and
\* not_check swallow that failure
C27_Witness ==
    /\ Done /\ backend = "syn" /\ out.status = "ok" /\ ~check_fatal(ctx)
    /\ \E q \in 0..Len(inp) : \E p \in AllPatterns :
          FatalFailure(generate_pattern_step(G, p, syn_stream(inp), q, FreshCtx))

\* a routine entered with the rule stack of FreshCtx that returned r has left
\* the stack as it was
StackKept(r) == r.hang \/ r.ctx.rule_stack = FreshCtx.rule_stack
WrappersKeepStack(r) ==
    /\ StackKept(r)
    /\ StackKept(attempt_done(attempt_enter(FreshCtx, 0), 0, r))
    /\ StackKept(attempt_recover_done(attempt_recover_enter(FreshCtx, 0), 0, r))
    /\ StackKept(peek_done(peek_enter(FreshCtx, 0), 0, r))
    /\ StackKept(not_check_done(not_check_enter(FreshCtx, 0), 0, r))

\* C28: the rule stack is the chain of the active rule invocations: it holds
\* the entry rule alone between the iterations of its loop and is empty when
\* parse_<rule>_impl has returned, with success or an error, fatal or not;
\* and every pattern of the grammar (a call of parse_<rule>_impl is one), with
\* attempt, attempt_recover, peek or not_check around it or without, run on
\* any input, returns with the stack it was entered with.  (The routines read
\* forward only: a pattern entered further into an input runs as on the rest
\* of it, which is one of the inputs.)
C28_RuleStackBalanced ==
    /\ (mode = "parse" /\ backend = "syn" /\ pc = "loop") => ctx.rule_stack = <<MainName>>
    /\ (Done /\ backend = "syn" /\ out.status \in {"ok", "err"}) => ctx.rule_stack = <<>>
    /\ (mode = "parse" /\ backend = "syn" /\ pc = "ready") =>
          \A p \in AllPatterns :
              WrappersKeepStack(generate_pattern_step(G, p, syn_stream(inp), 0, FreshCtx))

\* C28 happens: a parse through a call of another rule's routine was aborted
\* by a fatal failure and the stack is empty
C28_Witness ==
    /\ Done /\ backend = "syn" /\ out.status = "err" /\ check_fatal(ctx)
    /\ ctx.rule_stack = <<>>
    /\ \E p \in AllPatterns :
          /\ p.k = "RuleCall"
          /\ FatalFailure(generate_pattern_step(G, p, syn_stream(inp), 0, FreshCtx))

\* name is defined in a scope of c that exit_scope leaves open
DefinedBelow(c, name) ==
    \E i \in 1..Len(c.scopes) :
        name \in c.scopes[i] /\ (i < Len(c.scopes) \/ Len(c.scopes) = 1)

\* C29: the scope stack always holds at least one scope; exit_scope on the
\* outermost scope changes nothing; define adds the name to the innermost
\* scope and leaves the others alone; and is_defined follows the scopes that
\* are open: no name is defined at the start, enter_scope changes no answer,
\* define makes its name defined, and after exit_scope a name is defined iff
\* it was defined in a scope that is still open.
C29_ScopeStack ==
    [][mode = "rt" =>
         /\ Len(ctx.scopes) >= 1 /\ Len(ctx'.scopes) >= 1
         /\ ops = 0 => \A n \in RtNames : ~is_defined(ctx, n)
         /\ RtEnterScope =>
               /\ Len(ctx'.scopes) = Len(ctx.scopes) + 1
               /\ \A n \in RtNames : is_defined(ctx', n) <=> is_defined(ctx, n)
         /\ RtExitScope =>
               /\ Len(ctx.scopes) = 1 => ctx'.scopes = ctx.scopes
               /\ \A n \in RtNames : is_defined(ctx', n) <=> DefinedBelow(ctx, n)
         /\ RtDefine =>
               /\ Len(ctx'.scopes) = Len(ctx.scopes)
               /\ \A i \in 1..(Len(ctx.scopes) - 1) : ctx'.scopes[i] = ctx.scopes[i]
               /\ \E n \in RtNames :
                     /\ ctx'.scopes[Len(ctx.scopes)] = ctx.scopes[Len(ctx.scopes)] \cup {n}
                     /\ is_defined(ctx', n)
      ]_vars

\* C29 happens: a scope was entered and a name defined in it, which the
\* outermost scope does not hold
C29_Witness ==
    /\ mode = "rt" /\ frames = <<>>
    /\ Len(ctx.scopes) = 2 /\ ctx.scopes[1] = {} /\ ctx.scopes[2] = {"x"}
    /\ is_defined(ctx, "x")

\* C30: every Repeat and Plus loop of a synthesized parser terminates: no
\* parse ends in a loop that iterates again at the position it iterated at.
C30_LoopsTerminate ==
    (Done /\ backend = "syn") => out.status /= "hang"
====
